---- MODULE Spec2Model ----
(***************************************************************************)
(* Model of the WhatsApp session micro-service (records_ws_ms):            *)
(*   - WhatsappStorageService   (message / chat persistence)               *)
(*   - WhatsAppSessionSchema    (durable session record, pre('save') hook) *)
(*   - WhatsappWebService       (session registry, createSession, the      *)
(*                               client event handlers, the sync pass)     *)
(* Every asynchronous method is cut at its awaits that separate a read of  *)
(* shared state from a later write: one action per segment.                *)
(***************************************************************************)
EXTENDS Integers, Sequences, FiniteSets, Bags, TLC

\* ------------------------------------------------------------------------
\* Bounds of the model
\* ------------------------------------------------------------------------
MaxEdition == 2
MaxInFlight == 2
MaxEditInFlight == 1
MaxClients == 2
MaxChats == 3
MaxDeletions == 2

SessionIds == {"s1", "s2"}
MessageIds == {"m1", "m2"}
Bodies == {"a", "b"}
DeletedByTags == {"me", "everyone"}
Clients == 1..MaxClients
NoClient == 0
\* client.getChats() returns the chats 1..n, n <= MaxChats
ChatIds == 1..MaxChats
\* the values new Date() takes in markChatAsDeleted
DeletionDates == 1..MaxDeletions

MsgKeys == SessionIds \X MessageIds
\* the persistence-layer specification runs its operations on one key
StoreKeys == {<<"s1", "m1">>}

VARIABLES
  messages,   \* whatsAppMessageModel: (sessionId, messageId) -> document
  calls,      \* bag of storage calls suspended between findOne and write
  saveOutcome,\* how the latest saveMessage call ended (what it logged)
  sessions,   \* WhatsappWebService.sessions: sessionId -> client of its handle
  handles,    \* the handle objects {client, isReady, isRestoring}, by client
  clients,    \* the automation clients constructed so far
  docs,       \* whatsAppSessionModel: sessionId -> session document
  cs,         \* createSession: the call in progress for each session id
  chats,      \* whatsAppChatModel: (sessionId, chatId) -> chat document
  pass,       \* syncChatsWithProgress: the invocation in progress, by session
  progress,   \* the sync_chats checkpoints the latest invocation emitted
  alerts,     \* the alerts the handler of the latest event sent
  emitted,    \* what left the service for the latest event or sync request:
              \* the push / broker notifications sent (the sync_chats
              \* checkpoints apart: progress) and an exception that escaped
  msgEvent,   \* the latest message event a handler has handled
  rapid,      \* two saveMessage calls in a row for one key: how far they are
  chatCalls   \* bag of markChatAsDeleted calls between findOne and updateOne

storeVars == <<messages, calls, saveOutcome>>
sessionVars == <<sessions, handles, clients, docs, cs>>
syncVars == <<chats, pass, progress>>
scenarioVars == <<msgEvent, rapid, chatCalls>>
eventVars == <<alerts, emitted, msgEvent, rapid, chatCalls>>
vars ==
  <<messages, calls, saveOutcome, sessions, handles, clients, docs, cs,
    chats, pass, progress, alerts, emitted, msgEvent, rapid, chatCalls>>

\* ------------------------------------------------------------------------
\* Message documents
\* ------------------------------------------------------------------------
\* No document stored under the key.  A document is its content fields plus
\* duplicate: a second document with the same (sessionId, messageId) exists.
NoMsg ==
  [exists |-> FALSE, body |-> "", edition |-> <<>>, isDeleted |-> FALSE,
   deletedBy |-> "null", duplicate |-> FALSE]

IsPrefix(s, t) ==
  /\ Len(s) <= Len(t)
  /\ \A i \in 1..Len(s) : s[i] = t[i]

\* a further call may be suspended
CanSuspend == BagCardinality(calls) < MaxInFlight

\* a further updateMessageEdition call may be suspended
CanSuspendEdit ==
  /\ CanSuspend
  /\ LET edits == [c \in {d \in DOMAIN calls : d.op = "edit"} |-> calls[c]] IN
     BagCardinality(edits) < MaxEditInFlight

Suspend(call) == calls (+) SetToBag({call})
Resume(call) == calls (-) SetToBag({call})

\* messageData of saveMessage: the content fields of its $set / create.
\* deletedAt / deletedBy are written as null and edition as [].
messageData(doc, body) ==
  [doc EXCEPT !.exists = TRUE, !.body = body, !.edition = <<>>,
              !.deletedBy = "null"]

\* saveMessageBranch without the isDeleted check
saveMessageBranch_noDeletedCheck(existingMessage) ==
  IF ~existingMessage.exists THEN "create" ELSE "update"

\* saveMessage, after findOne: what the call does given the document it found.
\*   "create"  no document: whatsAppMessageModel.create
\*   "return"  document is deleted: nothing is written
\*   "update"  updateOne $set messageData
saveMessageBranch(existingMessage) ==
  IF ~existingMessage.exists THEN "create"
  ELSE IF existingMessage.isDeleted THEN "return"
  ELSE "update"

\* saveMessage up to the end of its findOne.
saveMessage_find(k, body) ==
  /\ CanSuspend
  /\ LET branch == saveMessageBranch(messages[k]) IN
     IF branch = "return"
       THEN /\ saveOutcome' = "returned"
            /\ UNCHANGED <<messages, calls>>
       ELSE /\ calls' = Suspend(
                 [op |-> "save", key |-> k, body |-> body, edition |-> <<>>,
                  found |-> (branch = "update")])
            /\ UNCHANGED <<messages, saveOutcome>>

\* saveMessage: the write that follows findOne (create or updateOne).
saveMessage_write(call) ==
  /\ BagIn(call, calls)
  /\ call.op = "save"
  /\ LET k == call.key
         doc == messages[k]
     IN
     /\ messages' =
          IF call.found
            THEN \* updateOne without upsert: no match, no write
                 IF doc.exists
                   THEN [messages EXCEPT ![k] = messageData(doc, call.body)]
                   ELSE messages
            ELSE \* create: a new document, whatever is stored by now (no
                 \* unique index on messageId): a second document if one is
                 \* there, which findOne / updateOne never reach
                 IF doc.exists
                   THEN [messages EXCEPT ![k].duplicate = TRUE]
                   ELSE [messages EXCEPT ![k] =
                           [messageData(NoMsg, call.body) EXCEPT
                              !.isDeleted = FALSE]]
     /\ saveOutcome' = IF call.found THEN "updated" ELSE "saved"
     /\ calls' = Resume(call)

\* One updateOne of the bulkWrite of saveMessages (upsert: true).
bulkUpsert(doc, body) ==
  [exists |-> TRUE, body |-> body, edition |-> <<>>, isDeleted |-> FALSE,
   deletedBy |-> "null", duplicate |-> doc.duplicate]

bulkWrite_anySession(store, s, batch) ==
  [k \in MsgKeys |->
     IF k[2] \in DOMAIN batch
       THEN bulkUpsert(store[k], batch[k[2]])
       ELSE store[k]]

\* The store after saveMessages(sessionId, batch): batch maps message ids to
\* bodies.
bulkWrite(store, s, batch) ==
  [k \in MsgKeys |->
     IF k[1] = s /\ k[2] \in DOMAIN batch
       THEN bulkUpsert(store[k], batch[k[2]])
       ELSE store[k]]

\* the non-empty batches over the message ids ids
Batches(ids) ==
  UNION {[ms -> Bodies] : ms \in (SUBSET ids) \ {{}}}

saveMessages(s, batch) ==
  /\ messages' = bulkWrite(messages, s, batch)
  /\ UNCHANGED <<calls, saveOutcome>>

\* The $set of markMessageAsDeleted.
deletedMark(doc, deletedBy) ==
  [doc EXCEPT !.isDeleted = TRUE, !.deletedBy = deletedBy]

markMessageAsDeleted(k, deletedBy) ==
  /\ messages' =
       IF messages[k].exists
         THEN [messages EXCEPT ![k] = deletedMark(messages[k], deletedBy)]
         ELSE messages
  /\ UNCHANGED <<calls, saveOutcome>>

\* editionHistory of updateMessageEdition: the found edition plus prevBody.
editionHistory(existingMessage, prevBody) ==
  Append(IF existingMessage.exists THEN existingMessage.edition ELSE <<>>,
         prevBody)

\* updateMessageEdition up to the end of its findOne.
updateMessageEdition_find(k, newBody, prevBody) ==
  /\ CanSuspendEdit
  /\ Len(messages[k].edition) < MaxEdition
  /\ calls' = Suspend(
       [op |-> "edit", key |-> k, body |-> newBody,
        edition |-> editionHistory(messages[k], prevBody), found |-> TRUE])
  /\ UNCHANGED <<messages, saveOutcome>>

\* updateMessageEdition: its updateOne.
updateMessageEdition_write(call) ==
  /\ BagIn(call, calls)
  /\ call.op = "edit"
  /\ LET k == call.key IN
     messages' =
       IF messages[k].exists
         THEN [messages EXCEPT ![k].body = call.body,
                               ![k].edition = call.edition]
         ELSE messages
  /\ calls' = Resume(call)
  /\ UNCHANGED saveOutcome


\* ------------------------------------------------------------------------
\* Session documents (WhatsAppSession schema)
\* ------------------------------------------------------------------------
\* AppConstants.MAX_QR_ATTEMPTS, the default of maxQrAttempts
MAX_QR_ATTEMPTS == 3

Statuses ==
  {"initializing", "qr_generated", "authenticated", "ready", "disconnected",
   "closed", "auth_failure", "error"}

\* No session document stored for the id.  wasReady is history, not a field
\* of the schema: the latest status write replaced status ready.
NoDoc ==
  [exists |-> FALSE, status |-> "initializing", qrAttempts |-> 0,
   maxQrAttempts |-> MAX_QR_ATTEMPTS, isDisconnected |-> FALSE,
   closedAt |-> FALSE, wasReady |-> FALSE]

\* The document an upsert inserts: the schema defaults.
DocDefaults == [NoDoc EXCEPT !.exists = TRUE]

\* WhatsAppSessionSchema.pre('save'): doc is the document being saved, with
\* its new status set, statusModified is this.isModified('status').  It is
\* document middleware: it runs on Document.save() and on no updateOne.
preSave(doc, statusModified) ==
  LET counted ==
        IF statusModified /\ doc.status = "qr_generated"
          THEN [doc EXCEPT !.qrAttempts = doc.qrAttempts + 1]
          ELSE doc
      reset ==
        IF statusModified /\ counted.status \in {"authenticated", "ready"}
          THEN [counted EXCEPT !.qrAttempts = 0]
          ELSE counted
      closed ==
        IF reset.qrAttempts >= reset.maxQrAttempts /\ reset.status # "closed"
          THEN [reset EXCEPT !.status = "closed", !.closedAt = TRUE]
          ELSE reset
  IN IF statusModified
       THEN [closed EXCEPT !.isDisconnected = (closed.status = "disconnected")]
       ELSE closed

\* storeSessionMetadata(sessionId, {status, ...}): updateOne with upsert,
\* $set of the metadata; the save middleware is not involved.
storeSessionMetadata(store, s, status) ==
  [store EXCEPT ![s] =
     [(IF store[s].exists THEN store[s] ELSE DocDefaults) EXCEPT
        !.status = status,
        !.wasReady = (store[s].exists /\ store[s].status = "ready")]]

\* ------------------------------------------------------------------------
\* Registry, handles and clients
\* ------------------------------------------------------------------------
NoHandle == [exists |-> FALSE, isReady |-> FALSE, isRestoring |-> FALSE]

Unborn == [owner |-> "", state |-> "unborn"]

\* the clients not constructed yet; new Client takes the least
Fresh == {c \in Clients : clients[c].state = "unborn"}
NewClient == CHOOSE c \in Fresh : \A d \in Fresh : c <= d

\* the client's listeners are attached and the client can emit
Emitting(c) == clients[c].state \in {"initializing", "running"}

\* this.sessions.get(sessionId): the handle object, NoHandle if undefined
Handle(s) == IF sessions[s] = NoClient THEN NoHandle ELSE handles[sessions[s]]

\* if (session) session.isReady = v
setReady(hs, s, v) ==
  IF sessions[s] = NoClient THEN hs
  ELSE [hs EXCEPT ![sessions[s]].isReady = v]

\* existing: existingSession; stored: what the call uses of storedSession,
\* whether it is a document with status authenticated or ready; inits: the
\* calls of client.initialize() so far; cleaned: removeSessionFolder has
\* run; error: what the catch block caught last ("lock" if
\* isSingletonLockError).  A call that has returned or thrown keeps its
\* locals with pc "idle" until the next call.
IdleCall ==
  [pc |-> "idle", existing |-> NoClient, stored |-> FALSE,
   isRestoring |-> FALSE, retryCount |-> 0, client |-> NoClient,
   result |-> "none", inits |-> 0, cleaned |-> FALSE, error |-> "none"]

\* the call has returned (or thrown): what is kept of it
Returned(call, result) ==
  [call EXCEPT !.pc = "idle", !.result = result, !.isRestoring = FALSE,
               !.client = NoClient]


AuthOrReady(doc) == doc.exists /\ doc.status \in {"ready", "authenticated"}

createSessionBranch_rejectStored(existingSession, storedSession) ==
  IF AuthOrReady(storedSession)
    THEN "reject"
  ELSE IF existingSession.exists /\ ~existingSession.isReady
    THEN "recreate"
  ELSE "create"

createSessionBranch_noReject(existingSession, storedSession) ==
  IF existingSession.exists /\ ~existingSession.isReady
    THEN "recreate"
  ELSE "create"

\* createSession, the checks after findOne, on the handle got before it
\* (existing, NoHandle if none) and the stored document:
\*   "reject"    return {success: false}
\*   "recreate"  a handle exists and is not ready: destroy it first
\*   "create"    go on to create the client
createSessionBranch(existingSession, storedSession) ==
  IF existingSession.exists /\ existingSession.isReady
       /\ AuthOrReady(storedSession)
    THEN "reject"
  ELSE IF AuthOrReady(storedSession) /\ existingSession.exists
    THEN "reject"
  ELSE IF existingSession.exists /\ ~existingSession.isReady
    THEN "recreate"
  ELSE "create"

\* createSession: the call, up to the end of this.sessions.get.
createSession_get(s, isRestoring) ==
  /\ cs[s].pc = "idle"
  /\ cs' = [cs EXCEPT ![s] =
       [IdleCall EXCEPT !.pc = "find", !.existing = sessions[s],
                        !.isRestoring = isRestoring]]
  /\ UNCHANGED <<sessions, handles, clients, docs>>

\* createSession: findOne has answered; the checks up to the next await.
createSession_find(s) ==
  /\ cs[s].pc = "find"
  /\ LET existingSession ==
           IF cs[s].existing = NoClient THEN NoHandle
           ELSE handles[cs[s].existing]
         branch == createSessionBranch(existingSession, docs[s])
         call == [cs[s] EXCEPT !.stored = AuthOrReady(docs[s])]
     IN cs' = [cs EXCEPT ![s] =
          IF branch = "reject"
            THEN Returned(call, "rejected")
          ELSE IF branch = "recreate"
            THEN [call EXCEPT !.pc = "destroy"]
          ELSE [call EXCEPT !.pc = "store"]]
  /\ UNCHANGED <<sessions, handles, clients, docs>>

createSession_destroy_keepsHandle(s, destroyed) ==
  /\ cs[s].pc = "destroy"
  /\ clients' =
       IF destroyed
         THEN [clients EXCEPT ![cs[s].existing].state = "destroyed"]
         ELSE clients
  /\ cs' = [cs EXCEPT ![s].pc = "store"]
  /\ UNCHANGED <<sessions, handles, docs>>

\* createSession: existingSession.client.destroy() (an error is logged), then
\* this.sessions.delete(sessionId).
createSession_destroy(s, destroyed) ==
  /\ cs[s].pc = "destroy"
  /\ clients' =
       IF destroyed
         THEN [clients EXCEPT ![cs[s].existing].state = "destroyed"]
         ELSE clients
  /\ sessions' = [sessions EXCEPT ![s] = NoClient]
  /\ cs' = [cs EXCEPT ![s].pc = "store"]
  /\ UNCHANGED <<handles, docs>>

\* createSession: storeSessionMetadata(initializing), new Client,
\* setupClientListeners; client.initialize() is pending.
createSession_store(s) ==
  /\ cs[s].pc = "store"
  /\ Fresh # {}
  /\ docs' = storeSessionMetadata(docs, s, "initializing")
  /\ clients' = [clients EXCEPT ![NewClient] =
       [owner |-> s, state |-> "initializing"]]
  /\ cs' = [cs EXCEPT ![s].pc = "init", ![s].client = NewClient,
                      ![s].inits = cs[s].inits + 1]
  /\ UNCHANGED <<sessions, handles>>

\* createSession: client.initialize() resolved; this.sessions.set.
createSession_set(s) ==
  /\ cs[s].pc = "init"
  /\ LET c == cs[s].client IN
     /\ clients' = [clients EXCEPT ![c].state =
          IF clients[c].state = "initializing" THEN "running"
          ELSE clients[c].state]
     /\ sessions' = [sessions EXCEPT ![s] = c]
     /\ handles' = [handles EXCEPT ![c] =
          [exists |-> TRUE, isReady |-> FALSE,
           isRestoring |-> cs[s].isRestoring]]
  /\ cs' = [cs EXCEPT ![s] = Returned(cs[s], "created")]
  /\ UNCHANGED docs

createSession_catch_alwaysRetries(s, lock) ==
  /\ cs[s].pc = "init"
  /\ clients' = [clients EXCEPT ![cs[s].client].state = "failed"]
  /\ sessions' = [sessions EXCEPT ![s] = NoClient]
  /\ LET call == [cs[s] EXCEPT !.error = IF lock THEN "lock" ELSE "other"] IN
     IF lock
       THEN /\ cs' = [cs EXCEPT ![s] =
                 [call EXCEPT !.pc = "retry", !.cleaned = TRUE]]
            /\ UNCHANGED docs
       ELSE /\ docs' = storeSessionMetadata(docs, s, "error")
            /\ cs' = [cs EXCEPT ![s] = Returned(call, "threw")]
  /\ UNCHANGED handles

\* createSession: client.initialize() rejected; the catch block.  lock is
\* isSingletonLockError(error).
createSession_catch(s, lock) ==
  /\ cs[s].pc = "init"
  /\ clients' = [clients EXCEPT ![cs[s].client].state = "failed"]
  /\ sessions' = [sessions EXCEPT ![s] = NoClient]
  /\ LET call == [cs[s] EXCEPT !.error = IF lock THEN "lock" ELSE "other"] IN
     IF lock /\ cs[s].retryCount = 0
       THEN \* removeSessionFolder, sessions.delete, the backoff
            /\ cs' = [cs EXCEPT ![s] =
                 [call EXCEPT !.pc = "retry", !.cleaned = TRUE]]
            /\ UNCHANGED docs
       ELSE \* sessions.delete, storeSessionMetadata(error), throw
            /\ docs' = storeSessionMetadata(docs, s, "error")
            /\ cs' = [cs EXCEPT ![s] = Returned(call, "threw")]
  /\ UNCHANGED handles

\* createSession: the retry, createSession(sessionId, options, retryCount + 1)
\* after the backoff, up to the end of its this.sessions.get.
createSession_retry(s) ==
  /\ cs[s].pc = "retry"
  /\ cs' = [cs EXCEPT ![s].pc = "find", ![s].existing = sessions[s],
                      ![s].retryCount = cs[s].retryCount + 1,
                      ![s].client = NoClient]
  /\ UNCHANGED <<sessions, handles, clients, docs>>

\* what destroySession(sessionId) returns, or that it throws, for a registry
\* and the outcomes of client.destroy() and deleteMany
destroySessionResult(registry, s, destroyed, deleted) ==
  IF registry[s] = NoClient THEN "not_found"
  ELSE IF destroyed /\ deleted THEN "success"
  ELSE "threw"

destroySession_keepsRecord(s, destroyed, deleted) ==
  /\ IF sessions[s] # NoClient /\ destroyed
       THEN /\ clients' = [clients EXCEPT ![sessions[s]].state = "destroyed"]
            /\ sessions' = [sessions EXCEPT ![s] = NoClient]
       ELSE UNCHANGED <<clients, sessions>>
  /\ UNCHANGED <<handles, cs, docs>>

\* destroySession(sessionId); destroyed: client.destroy() resolved, deleted:
\* deleteMany resolved (each throws otherwise, and the method with it).
destroySession(s, destroyed, deleted) ==
  /\ IF sessions[s] # NoClient /\ destroyed
       THEN /\ clients' = [clients EXCEPT ![sessions[s]].state = "destroyed"]
            /\ sessions' = [sessions EXCEPT ![s] = NoClient]
            /\ docs' = IF deleted THEN [docs EXCEPT ![s] = NoDoc] ELSE docs
       ELSE UNCHANGED <<clients, sessions, docs>>
  /\ UNCHANGED <<handles, cs>>

\* what the gateway (emitQrCode, emitReady, ...) or the broker
\* (session_ready, with the stored chat ids) is given to send
Notice(type, s, chatIds) == [type |-> type, sessionId |-> s, chats |-> chatIds]

\* an exception leaves a handler: the promise of the async handler rejects
\* (unhandledRejection), or the throw reaches the client's emit
Escaped(s) == Notice("unhandledRejection", s, {})

\* gateway.emitX(...) called outside any try: the notification is sent, or
\* the call throws
sendOrThrow(notice, sent) ==
  IF sent THEN <<notice>> ELSE <<Escaped(notice.sessionId)>>

onQr_noReadyCheck(c, sent) ==
  /\ Emitting(c)
  /\ LET s == clients[c].owner IN
     /\ docs' = storeSessionMetadata(docs, s, "qr_generated")
     /\ emitted' = sendOrThrow(Notice("qr", s, {}), sent)
  /\ alerts' = <<>>
  /\ UNCHANGED <<sessions, handles, clients, cs>>

\* client.on('qr') of client c; sent: emitQrEvent returned
onQr(c, sent) ==
  /\ Emitting(c)
  /\ LET s == clients[c].owner IN
     IF Handle(s).exists /\ Handle(s).isReady
       THEN /\ UNCHANGED docs
            /\ emitted' = <<>>
       ELSE /\ docs' = storeSessionMetadata(docs, s, "qr_generated")
            /\ emitted' = sendOrThrow(Notice("qr", s, {}), sent)
  /\ alerts' = <<>>
  /\ UNCHANGED <<sessions, handles, clients, cs>>

\* client.on('authenticated') of client c
onAuthenticated(c) ==
  /\ Emitting(c)
  /\ docs' = storeSessionMetadata(docs, clients[c].owner, "authenticated")
  /\ alerts' = <<>>
  /\ emitted' = <<>>
  /\ UNCHANGED <<sessions, handles, clients, cs>>

\* client.on('auth_failure') of client c; sent: emitAuthFailureEvent returned
onAuthFailure(c, sent) ==
  /\ Emitting(c)
  /\ docs' = storeSessionMetadata(docs, clients[c].owner, "auth_failure")
  /\ alerts' = <<>>
  /\ emitted' = sendOrThrow(Notice("auth_failure", clients[c].owner, {}), sent)
  /\ UNCHANGED <<sessions, handles, clients, cs>>

\* client.on('ready') of client c, up to the end of storeSessionMetadata;
\* for a handle that is restoring, to the end: emitReadyEvent, outside the
\* try of the other branch (sent: it returned)
onReady(c, sent) ==
  /\ Emitting(c)
  /\ LET s == clients[c].owner IN
     /\ handles' = setReady(handles, s, TRUE)
     /\ docs' = [storeSessionMetadata(docs, s, "ready") EXCEPT
                   ![s].isDisconnected = FALSE]
     /\ emitted' = IF Handle(s).isRestoring
                     THEN sendOrThrow(Notice("ready", s, {}), sent)
                     ELSE <<>>
  /\ alerts' = <<>>
  /\ UNCHANGED <<sessions, clients, cs>>

\* what the alerts service sends (createDisconnectedAlert,
\* createMessageDeletedAlert, createMessageEditedAlert)
Alert(type, s, messageId, chatId) ==
  [type |-> type, sessionId |-> s, messageId |-> messageId,
   chatId |-> chatId]

\* the alert of a handler: sent if (sessionDoc?._id)
alertIfSession(store, s, alert) ==
  IF store[s].exists THEN <<alert>> ELSE <<>>

onDisconnected_noAlert(c) ==
  /\ Emitting(c)
  /\ LET s == clients[c].owner IN
     /\ handles' = setReady(handles, s, FALSE)
     /\ docs' = [storeSessionMetadata(docs, s, "disconnected") EXCEPT
                   ![s].isDisconnected = TRUE, ![s].closedAt = TRUE]
     /\ alerts' = <<>>
     /\ sessions' = [sessions EXCEPT ![s] = NoClient]
  /\ emitted' = <<>>
  /\ UNCHANGED <<clients, cs>>

\* client.on('disconnected') of client c
onDisconnected(c) ==
  /\ Emitting(c)
  /\ LET s == clients[c].owner
         stored == storeSessionMetadata(docs, s, "disconnected")
     IN
     /\ handles' = setReady(handles, s, FALSE)
     /\ docs' = [stored EXCEPT
                   ![s].isDisconnected = TRUE, ![s].closedAt = TRUE]
     /\ alerts' = alertIfSession(stored, s, Alert("disconnected", s, "", 0))
     /\ sessions' = [sessions EXCEPT ![s] = NoClient]
  /\ emitted' = <<>>
  /\ UNCHANGED <<clients, cs>>

\* handleSessionClosed(sessionId), reached from getChatMessages when a call of
\* the ready session's client fails with "Session closed"
handleSessionClosed(s) ==
  /\ Handle(s).exists
  /\ Handle(s).isReady
  /\ handles' = setReady(handles, s, FALSE)
  /\ docs' = storeSessionMetadata(docs, s, "closed")
  /\ UNCHANGED <<sessions, clients, cs>>

\* ------------------------------------------------------------------------
\* Chat documents and the synchronization pass
\* ------------------------------------------------------------------------
NoChat == [exists |-> FALSE, deleted |-> FALSE, deletedAt |-> <<>>]

chatUpsert_resetsList(doc, isE2ENotification) ==
  [exists |-> TRUE,
   deleted |-> IF isE2ENotification THEN doc.deleted ELSE FALSE,
   deletedAt |-> <<>>]

\* One findOneAndUpdate of saveChats (upsert): $set chatData, in which
\* deleted: false is left out for an e2e_notification last message;
\* $setOnInsert deletedAt: [].
chatUpsert(doc, isE2ENotification) ==
  [exists |-> TRUE,
   deleted |-> IF isE2ENotification THEN doc.deleted ELSE FALSE,
   deletedAt |-> doc.deletedAt]

\* saveChat(sessionId, chat): one findOneAndUpdate (upsert)
saveChat(s, chat, isE2ENotification) ==
  /\ chats' = [chats EXCEPT ![<<s, chat>>] =
       chatUpsert(chats[<<s, chat>>], isE2ENotification)]
  /\ UNCHANGED chatCalls

\* the markChatAsDeleted calls of chat k that are between findOne and
\* updateOne
marking(k) ==
  BagCardinality([c \in {d \in DOMAIN chatCalls : d.key = k} |-> chatCalls[c]])

\* markChatAsDeleted(sessionId, chatId) up to the end of its findOne;
\* deletionDate is taken first. A chat that is not found ends the call.
markChatAsDeleted_find(k, deletionDate) ==
  /\ Len(chats[k].deletedAt) + marking(k) < MaxDeletions
  /\ chatCalls' =
       IF chats[k].exists
         THEN chatCalls
                (+) SetToBag({[key |-> k, deletionDate |-> deletionDate]})
         ELSE chatCalls
  /\ UNCHANGED chats

markChatAsDeleted_write_setsList(call) ==
  /\ BagIn(call, chatCalls)
  /\ chats' = [chats EXCEPT ![call.key].deleted = TRUE,
                            ![call.key].deletedAt = <<call.deletionDate>>]
  /\ chatCalls' = chatCalls (-) SetToBag({call})

\* markChatAsDeleted: its updateOne ($set deleted: true, $push deletedAt)
markChatAsDeleted_write(call) ==
  /\ BagIn(call, chatCalls)
  /\ chats' =
       IF chats[call.key].exists
         THEN [chats EXCEPT
                 ![call.key].deleted = TRUE,
                 ![call.key].deletedAt = Append(@, call.deletionDate)]
         ELSE chats
  /\ chatCalls' = chatCalls (-) SetToBag({call})

\* gateway.emitSyncChats payload
Checkpoint(nChats, currentChat, chatId, messagesSynced) ==
  [nChats |-> nChats, currentChat |-> currentChat, chatId |-> chatId,
   messagesSynced |-> messagesSynced]

NoBatch == <<>>

\* failure: for each chat, the step of the loop body that threw ("none" if
\* none did); clientCalls: the calls made on the automation client; target:
\* the chatId argument of syncRecentMessages (0 if none)
IdlePass ==
  [pc |-> "idle", caller |-> "none", client |-> NoClient, nChats |-> 0,
   i |-> 0, batch |-> NoBatch, clientCalls |-> 0,
   failure |-> [c \in ChatIds |-> "none"], target |-> 0]

\* a call on the automation client can only answer while the client runs
Answers(c) == c # NoClient /\ clients[c].state = "running"

nextChat_skipsAChat(p) ==
  IF p.i + 1 >= p.nChats
    THEN [p EXCEPT !.pc = "returned", !.batch = NoBatch]
    ELSE [p EXCEPT !.pc = "saveChats", !.i = p.i + 2, !.batch = NoBatch]

\* the for loop of syncChatsWithProgress moves on from chat p.i (1-based)
nextChat(p) ==
  IF p.i >= p.nChats
    THEN [p EXCEPT !.pc = "returned", !.batch = NoBatch]
    ELSE [p EXCEPT !.pc = "saveChats", !.i = p.i + 1, !.batch = NoBatch]

\* syncChatsWithProgress is called (by the ready handler or on request)
syncChatsWithProgress_call(s, caller) ==
  /\ pass[s].pc = "idle"
  /\ pass' = [pass EXCEPT ![s] =
       [IdlePass EXCEPT !.pc = "called", !.caller = caller]]
  /\ progress' = [progress EXCEPT ![s] = <<>>]
  /\ emitted' = <<>>
  /\ UNCHANGED chats

syncChatsWithProgress_check_existsOnly(s) ==
  /\ pass[s].pc = "called"
  /\ pass' = [pass EXCEPT ![s] =
       IF Handle(s).exists
         THEN [pass[s] EXCEPT !.pc = "getChats", !.client = sessions[s]]
         ELSE [pass[s] EXCEPT !.pc = "threw"]]
  /\ UNCHANGED <<chats, progress>>

\* syncChatsWithProgress: the session must exist and be ready, or it throws
syncChatsWithProgress_check(s) ==
  /\ pass[s].pc = "called"
  /\ pass' = [pass EXCEPT ![s] =
       IF Handle(s).exists /\ Handle(s).isReady
         THEN [pass[s] EXCEPT !.pc = "getChats", !.client = sessions[s]]
         ELSE [pass[s] EXCEPT !.pc = "threw"]]
  /\ UNCHANGED <<chats, progress>>

\* syncChatsWithProgress: session.client.getChats() answered n chats (ok) or
\* failed; the initial checkpoint
syncChatsWithProgress_getChats(s, ok, n) ==
  /\ pass[s].pc = "getChats"
  /\ ok => Answers(pass[s].client)
  /\ IF ok
       THEN /\ pass' = [pass EXCEPT ![s] =
                 nextChat([pass[s] EXCEPT !.nChats = n, !.i = 0,
                                          !.clientCalls = 1])]
            /\ progress' = [progress EXCEPT ![s] =
                 Append(progress[s], Checkpoint(n, 0, 0, 0))]
       ELSE /\ pass' = [pass EXCEPT ![s].pc = "threw", ![s].clientCalls = 1]
            /\ UNCHANGED progress
  /\ UNCHANGED chats

\* syncChatsWithProgress: saveChats(sessionId, [chat], onProgress) for chat i;
\* ok: the upsert succeeded and onProgress emitted; otherwise the catch block
\* of the loop emits
syncChatsWithProgress_saveChats(s, ok, isE2ENotification) ==
  /\ pass[s].pc = "saveChats"
  /\ LET p == pass[s] IN
     /\ progress' = [progress EXCEPT ![s] =
          Append(progress[s], Checkpoint(p.nChats, p.i, p.i, 0))]
     /\ IF ok
          THEN /\ chats' = [chats EXCEPT ![<<s, p.i>>] =
                    chatUpsert(chats[<<s, p.i>>], isE2ENotification)]
               /\ pass' = [pass EXCEPT ![s].pc = "fetchMessages"]
          ELSE /\ pass' = [pass EXCEPT ![s] =
                    nextChat([p EXCEPT !.failure[p.i] = "saveChats"])]
               /\ UNCHANGED chats

syncChatsWithProgress_fetchMessages_noElseEmit(s, ok, batch) ==
  /\ pass[s].pc = "fetchMessages"
  /\ ok => Answers(pass[s].client)
  /\ LET p == [pass[s] EXCEPT !.clientCalls = pass[s].clientCalls + 1] IN
     IF ok /\ batch # NoBatch
       THEN /\ pass' = [pass EXCEPT ![s] =
                 [p EXCEPT !.pc = "saveMessages", !.batch = batch]]
            /\ UNCHANGED progress
     ELSE IF ok
       THEN /\ pass' = [pass EXCEPT ![s] = nextChat(p)]
            /\ UNCHANGED progress
       ELSE /\ pass' = [pass EXCEPT ![s] =
                 nextChat([p EXCEPT !.failure[p.i] = "fetchMessages"])]
            /\ progress' = [progress EXCEPT ![s] =
                 Append(progress[s], Checkpoint(p.nChats, p.i, p.i, 0))]
  /\ UNCHANGED chats

\* syncChatsWithProgress: getChatById and fetchMessages for chat i answered
\* batch (ok), or one of them failed
syncChatsWithProgress_fetchMessages(s, ok, batch) ==
  /\ pass[s].pc = "fetchMessages"
  /\ ok => Answers(pass[s].client)
  /\ LET p == [pass[s] EXCEPT !.clientCalls = pass[s].clientCalls + 1] IN
     IF ok /\ batch # NoBatch
       THEN /\ pass' = [pass EXCEPT ![s] =
                 [p EXCEPT !.pc = "saveMessages", !.batch = batch]]
            /\ UNCHANGED progress
     ELSE IF ok
       THEN \* no messages: the else branch emits
            /\ pass' = [pass EXCEPT ![s] = nextChat(p)]
            /\ progress' = [progress EXCEPT ![s] =
                 Append(progress[s], Checkpoint(p.nChats, p.i, p.i, 0))]
       ELSE \* the catch block of the loop emits
            /\ pass' = [pass EXCEPT ![s] =
                 nextChat([p EXCEPT !.failure[p.i] = "fetchMessages"])]
            /\ progress' = [progress EXCEPT ![s] =
                 Append(progress[s], Checkpoint(p.nChats, p.i, p.i, 0))]
  /\ UNCHANGED chats

syncChatsWithProgress_saveMessages_noCatch(s, ok) ==
  /\ pass[s].pc = "saveMessages"
  /\ LET p == pass[s] IN
     IF ok
       THEN /\ messages' = bulkWrite(messages, s, p.batch)
            /\ progress' = [progress EXCEPT ![s] =
                 Append(progress[s],
                        Checkpoint(p.nChats, p.i, p.i,
                                   Cardinality(DOMAIN p.batch)))]
            /\ pass' = [pass EXCEPT ![s] = nextChat(p)]
       ELSE /\ pass' = [pass EXCEPT ![s] =
                 [p EXCEPT !.pc = "threw", !.failure[p.i] = "saveMessages"]]
            /\ UNCHANGED <<messages, progress>>
  /\ UNCHANGED chats

\* syncChatsWithProgress: saveMessages(sessionId, messages, chatId,
\* onProgress); ok: bulkWrite succeeded and onProgress emitted the count;
\* otherwise the catch block of the loop emits 0
syncChatsWithProgress_saveMessages(s, ok) ==
  /\ pass[s].pc = "saveMessages"
  /\ LET p == pass[s] IN
     /\ messages' = IF ok THEN bulkWrite(messages, s, p.batch) ELSE messages
     /\ progress' = [progress EXCEPT ![s] =
          Append(progress[s],
                 Checkpoint(p.nChats, p.i, p.i,
                            IF ok THEN Cardinality(DOMAIN p.batch) ELSE 0))]
     /\ pass' = [pass EXCEPT ![s] =
          nextChat(IF ok THEN p
                   ELSE [p EXCEPT !.failure[p.i] = "saveMessages"])]
  /\ UNCHANGED chats

\* the caller has the result (or the error) of syncChatsWithProgress; the
\* record of the invocation is dropped
\* getStoredChats(sessionId) as the ready handler uses it: the chat ids
storedChats(s) == {chat \in ChatIds : chats[<<s, chat>>].exists}

syncChatsWithProgress_end_readyFirst(s) ==
  /\ pass[s].pc \in {"returned", "threw"}
  /\ emitted' =
       IF pass[s].caller = "ready" /\ pass[s].pc = "returned"
         THEN <<Notice("ready", s, {}),
                Notice("session_ready", s, storedChats(s))>>
         ELSE <<>>
  /\ pass' = [pass EXCEPT ![s] = IdlePass]
  /\ progress' = [progress EXCEPT ![s] = <<>>]
  /\ UNCHANGED chats

\* syncChatsWithProgress returns or throws. To the ready handler: it sends
\* session_ready with the stored chat ids to the broker and then emits
\* ready, or catches what the pass threw
syncChatsWithProgress_end(s) ==
  /\ pass[s].pc \in {"returned", "threw"}
  /\ emitted' =
       IF pass[s].caller = "ready" /\ pass[s].pc = "returned"
         THEN <<Notice("session_ready", s, storedChats(s)),
                Notice("ready", s, {})>>
         ELSE <<>>
  /\ pass' = [pass EXCEPT ![s] = IdlePass]
  /\ progress' = [progress EXCEPT ![s] = <<>>]
  /\ UNCHANGED chats

\* ------------------------------------------------------------------------
\* syncRecentMessages
\* ------------------------------------------------------------------------
\* the chat the loop of syncRecentMessages is at: targetChatIds[i]
targetId(p) == IF p.target # 0 THEN p.target ELSE p.i

\* the for loop over targetChatIds moves on
nextTarget(p) ==
  IF p.i >= p.nChats
    THEN [p EXCEPT !.pc = "returned", !.batch = NoBatch]
    ELSE [p EXCEPT !.pc = "fetchMessages", !.i = p.i + 1, !.batch = NoBatch]

\* syncRecentMessages(sessionId, chatId) up to its first await: the session
\* must exist and be ready, or it throws; a chatId is the one target
syncRecentMessages_call(s, chatId) ==
  /\ pass[s].pc = "idle"
  /\ LET p == [IdlePass EXCEPT !.caller = "recent", !.target = chatId] IN
     pass' = [pass EXCEPT ![s] =
       IF ~(Handle(s).exists /\ Handle(s).isReady)
         THEN [p EXCEPT !.pc = "threw"]
       ELSE IF chatId # 0
         THEN nextTarget([p EXCEPT !.client = sessions[s], !.nChats = 1])
       ELSE [p EXCEPT !.pc = "getChats", !.client = sessions[s]]]
  /\ UNCHANGED <<messages, progress, chats>>

\* syncRecentMessages: session.client.getChats() answered n chats or failed
syncRecentMessages_getChats(s, ok, n) ==
  /\ pass[s].caller = "recent"
  /\ pass[s].pc = "getChats"
  /\ ok => Answers(pass[s].client)
  /\ pass' = [pass EXCEPT ![s] =
       IF ok
         THEN nextTarget([pass[s] EXCEPT !.nChats = n, !.clientCalls = 1])
         ELSE [pass[s] EXCEPT !.pc = "threw", !.clientCalls = 1]]
  /\ UNCHANGED <<messages, progress, chats>>

syncRecentMessages_fetchMessages_noCatch(s, ok, batch) ==
  /\ pass[s].caller = "recent"
  /\ pass[s].pc = "fetchMessages"
  /\ ok => Answers(pass[s].client)
  /\ LET p == [pass[s] EXCEPT !.clientCalls = pass[s].clientCalls + 1] IN
     pass' = [pass EXCEPT ![s] =
       IF ok /\ batch # NoBatch
         THEN [p EXCEPT !.pc = "saveMessages", !.batch = batch]
       ELSE IF ok
         THEN nextTarget(p)
       ELSE [p EXCEPT !.pc = "threw",
                      !.failure[targetId(p)] = "fetchMessages"]]
  /\ UNCHANGED <<messages, progress, chats>>

\* syncRecentMessages: getChatById and fetchMessages for the target answered
\* batch (ok), or one of them failed and the catch of the loop logs it
syncRecentMessages_fetchMessages(s, ok, batch) ==
  /\ pass[s].caller = "recent"
  /\ pass[s].pc = "fetchMessages"
  /\ ok => Answers(pass[s].client)
  /\ LET p == [pass[s] EXCEPT !.clientCalls = pass[s].clientCalls + 1] IN
     pass' = [pass EXCEPT ![s] =
       IF ok /\ batch # NoBatch
         THEN [p EXCEPT !.pc = "saveMessages", !.batch = batch]
       ELSE IF ok
         THEN nextTarget(p)
       ELSE nextTarget([p EXCEPT !.failure[targetId(p)] = "fetchMessages"])]
  /\ UNCHANGED <<messages, progress, chats>>

\* syncRecentMessages: saveMessages(sessionId, messages, targetId), with no
\* progress callback; a failure goes to the catch of the loop
syncRecentMessages_saveMessages(s, ok) ==
  /\ pass[s].caller = "recent"
  /\ pass[s].pc = "saveMessages"
  /\ LET p == pass[s] IN
     /\ messages' = IF ok THEN bulkWrite(messages, s, p.batch) ELSE messages
     /\ pass' = [pass EXCEPT ![s] =
          nextTarget(IF ok THEN p
                     ELSE [p EXCEPT !.failure[targetId(p)] = "saveMessages"])]
  /\ UNCHANGED <<progress, chats>>

\* the caller has { success: true, chatsProcessed } or the error
syncRecentMessages_end(s) ==
  /\ pass[s].caller = "recent"
  /\ pass[s].pc \in {"returned", "threw"}
  /\ pass' = [pass EXCEPT ![s] = IdlePass]
  /\ UNCHANGED <<messages, progress, chats>>

\* ------------------------------------------------------------------------
\* Message events
\* ------------------------------------------------------------------------
\* no message event yet; tick tells an event from the one before it
NoEvent ==
  [type |-> "none", sessionId |-> "", messageId |-> "", chatId |-> 0,
   hasRevokedMsg |-> FALSE, tick |-> FALSE]

\* saveMessage(sessionId, message) run from findOne to its write with nothing
\* in between: the store it leaves
saveMessageAlone(store, k, body) ==
  LET branch == saveMessageBranch(store[k]) IN
  IF branch = "create"
    THEN [store EXCEPT ![k] =
            [messageData(NoMsg, body) EXCEPT !.isDeleted = FALSE]]
  ELSE IF branch = "update"
    THEN [store EXCEPT ![k] = messageData(store[k], body)]
  ELSE store

\* markMessageAsDeleted on a store
markedDeleted(store, k, deletedBy) ==
  IF store[k].exists
    THEN [store EXCEPT ![k] = deletedMark(store[k], deletedBy)]
    ELSE store

Event(type, s, m, chat, hasRevokedMsg) ==
  [type |-> type, sessionId |-> s, messageId |-> m, chatId |-> chat,
   hasRevokedMsg |-> hasRevokedMsg, tick |-> ~msgEvent.tick]

\* client.on('message_create') of client c: saveMessage, then saveChat of
\* the message's chat
onMessageCreate(c, m, chat, body, isE2ENotification) ==
  /\ Emitting(c)
  /\ LET s == clients[c].owner IN
     /\ messages' = saveMessageAlone(messages, <<s, m>>, body)
     /\ chats' = [chats EXCEPT ![<<s, chat>>] =
          chatUpsert(chats[<<s, chat>>], isE2ENotification)]
     /\ msgEvent' = Event("message_create", s, m, chat, FALSE)
     /\ emitted' = <<Notice("new_message", s, {}),
                     Notice("message_create", s, {})>>
  /\ alerts' = <<>>
  /\ UNCHANGED <<calls, saveOutcome>>

\* client.on('message_revoke_me') of client c
onMessageRevokeMe(c, m, chat) ==
  /\ Emitting(c)
  /\ LET s == clients[c].owner IN
     /\ messages' = markedDeleted(messages, <<s, m>>, "me")
     /\ alerts' = alertIfSession(docs, s, Alert("message_deleted", s, m, chat))
     /\ msgEvent' = Event("message_revoke_me", s, m, chat, FALSE)
     /\ emitted' = <<Notice("message_deleted", s, {})>>
  /\ UNCHANGED <<calls, saveOutcome>>

\* client.on('message_revoke_everyone') of client c, for (message,
\* revokedMsg): message is saved if revokedMsg is there, and then
\* revokedMsg.id is read: with no revokedMsg that throws, and the handler's
\* catch logs it
onMessageRevokeEveryone(c, m, chat, body, hasRevokedMsg) ==
  /\ Emitting(c)
  /\ LET s == clients[c].owner IN
     /\ IF hasRevokedMsg
          THEN /\ messages' =
                    markedDeleted(saveMessageAlone(messages, <<s, m>>, body),
                                  <<s, m>>, "everyone")
               /\ alerts' =
                    alertIfSession(docs, s,
                                   Alert("message_deleted", s, m, chat))
               /\ emitted' = <<Notice("message_deleted", s, {})>>
          ELSE /\ UNCHANGED messages
               /\ alerts' = <<>>
               /\ emitted' = <<>>
     /\ msgEvent' = Event("message_revoke_everyone", s, m, chat,
                          hasRevokedMsg)
  /\ UNCHANGED <<calls, saveOutcome>>

\* updateMessageEdition run from findOne to updateOne with nothing in
\* between: the store it leaves
messageEdited(store, k, newBody, prevBody) ==
  IF store[k].exists
    THEN [store EXCEPT ![k].body = newBody,
                       ![k].edition = editionHistory(store[k], prevBody)]
    ELSE store

\* markChatAsDeleted run from findOne to updateOne with nothing in between
chatMarkedDeleted(store, k, deletionDate) ==
  IF store[k].exists
    THEN [store EXCEPT ![k].deleted = TRUE,
                       ![k].deletedAt = Append(@, deletionDate)]
    ELSE store

\* client.on('message_edit') of client c
onMessageEdit(c, m, chat, newBody, prevBody) ==
  /\ Emitting(c)
  /\ LET s == clients[c].owner IN
     /\ Len(messages[<<s, m>>].edition) < MaxEdition
     /\ messages' = messageEdited(messages, <<s, m>>, newBody, prevBody)
     /\ alerts' = alertIfSession(docs, s, Alert("message_edited", s, m, chat))
     /\ msgEvent' = Event("message_edit", s, m, chat, FALSE)
  /\ emitted' = <<>>
  /\ UNCHANGED <<calls, saveOutcome>>

\* client.on('chat_removed') of client c
onChatRemoved(c, chat, deletionDate) ==
  /\ Emitting(c)
  /\ LET s == clients[c].owner IN
     /\ Len(chats[<<s, chat>>].deletedAt) < MaxDeletions
     /\ chats' = chatMarkedDeleted(chats, <<s, chat>>, deletionDate)
     /\ emitted' = <<Notice("chat_removed", s, {chat})>>
     /\ alerts' = alertIfSession(docs, s, Alert("chat_removed", s, "", chat))
     /\ msgEvent' = Event("chat_removed", s, "", chat, FALSE)

\* ------------------------------------------------------------------------
\* getChatMessages
\* ------------------------------------------------------------------------
\* getChatMessages: Promise.all of saveMessage for the fetched messages
savedEach(store, s, batch) ==
  [k \in MsgKeys |->
     IF k[1] = s /\ k[2] \in DOMAIN batch
       THEN saveMessageAlone(store, k, batch[k[2]])[k]
       ELSE store[k]]

\* getChatMessages(sessionId, chatId) up to its first await: the session
\* must exist and be ready, or it throws (not a "Session closed" error)
getChatMessages_call(s) ==
  /\ pass[s].pc = "idle"
  /\ pass' = [pass EXCEPT ![s] =
       IF Handle(s).exists /\ Handle(s).isReady
         THEN [IdlePass EXCEPT !.pc = "getChatById", !.caller = "messages",
                               !.client = sessions[s]]
         ELSE [IdlePass EXCEPT !.pc = "threw", !.caller = "messages"]]
  /\ emitted' = <<>>
  /\ UNCHANGED <<messages, sessions, handles, clients, docs, cs>>

getChatMessages_answer_alwaysCloses(s, ok, sessionClosed, saved, batch) ==
  /\ pass[s].caller = "messages"
  /\ pass[s].pc = "getChatById"
  /\ ok => Answers(pass[s].client)
  /\ IF ok
       THEN /\ messages' = IF saved THEN savedEach(messages, s, batch)
                           ELSE messages
            /\ pass' = [pass EXCEPT ![s].pc = "returned"]
            /\ emitted' = <<>>
            /\ UNCHANGED <<handles, docs>>
       ELSE /\ handles' = setReady(handles, s, FALSE)
            /\ docs' = storeSessionMetadata(docs, s, "closed")
            /\ emitted' = <<Notice("sessionClosed", s, {})>>
            /\ pass' = [pass EXCEPT ![s].pc = "threw"]
            /\ UNCHANGED messages
  /\ UNCHANGED <<sessions, clients, cs>>

\* getChatMessages: getChatById and fetchMessages answered batch (ok), whose
\* messages are saved (an error of the saves is logged); or the call failed,
\* and for an error message matching /Session closed/i handleSessionClosed
\* runs before the error is rethrown
getChatMessages_answer(s, ok, sessionClosed, saved, batch) ==
  /\ pass[s].caller = "messages"
  /\ pass[s].pc = "getChatById"
  /\ ok => Answers(pass[s].client)
  /\ IF ok
       THEN /\ messages' = IF saved THEN savedEach(messages, s, batch)
                           ELSE messages
            /\ pass' = [pass EXCEPT ![s].pc = "returned"]
            /\ emitted' = <<>>
            /\ UNCHANGED <<handles, docs>>
     ELSE IF sessionClosed
       THEN \* handleSessionClosed(sessionId, chatId)
            /\ handles' = setReady(handles, s, FALSE)
            /\ docs' = storeSessionMetadata(docs, s, "closed")
            /\ emitted' = <<Notice("sessionClosed", s, {})>>
            /\ pass' = [pass EXCEPT ![s].pc = "threw"]
            /\ UNCHANGED messages
       ELSE /\ pass' = [pass EXCEPT ![s].pc = "threw"]
            /\ emitted' = <<>>
            /\ UNCHANGED <<messages, handles, docs>>
  /\ UNCHANGED <<sessions, clients, cs>>

\* the caller has the stored messages or the error
getChatMessages_end(s) ==
  /\ pass[s].caller = "messages"
  /\ pass[s].pc \in {"returned", "threw"}
  /\ pass' = [pass EXCEPT ![s] = IdlePass]
  /\ UNCHANGED <<messages, sessions, handles, clients, docs, cs, emitted>>

\* client.on('loading_screen') of client c: a zero-progress sync_chats
\* notification to the room of the session, which the listener receives in
\* the same stream as the checkpoints of a pass
onLoadingScreen(c) ==
  /\ Emitting(c)
  /\ LET s == clients[c].owner IN
     progress' = [progress EXCEPT ![s] =
       Append(progress[s], Checkpoint(0, 0, 0, 0))]
  /\ UNCHANGED <<chats, pass>>

\* no saveMessage pair under way
NoRapid ==
  [stage |-> "none", key |-> <<"", "">>, first |-> "", second |-> "",
   edition |-> <<>>]

\* ------------------------------------------------------------------------
\* Initial state: empty collections, empty registry
\* ------------------------------------------------------------------------
Init ==
  /\ messages = [k \in MsgKeys |-> NoMsg]
  /\ calls = EmptyBag
  /\ saveOutcome = "none"
  /\ sessions = [s \in SessionIds |-> NoClient]
  /\ handles = [c \in Clients |-> NoHandle]
  /\ clients = [c \in Clients |-> Unborn]
  /\ docs = [s \in SessionIds |-> NoDoc]
  /\ cs = [s \in SessionIds |-> IdleCall]
  /\ chats = [k \in SessionIds \X ChatIds |-> NoChat]
  /\ pass = [s \in SessionIds |-> IdlePass]
  /\ progress = [s \in SessionIds |-> <<>>]
  /\ alerts = <<>>
  /\ emitted = <<>>
  /\ msgEvent = NoEvent
  /\ rapid = NoRapid
  /\ chatCalls = EmptyBag

\* ------------------------------------------------------------------------
\* Specification of the persistence layer
\* ------------------------------------------------------------------------

SaveMessageFind ==
  /\ \E k \in StoreKeys, b \in Bodies : saveMessage_find(k, b)
  /\ UNCHANGED <<sessionVars, syncVars, eventVars>>
SaveMessageWrite ==
  /\ \E call \in BagToSet(calls) : saveMessage_write(call)
  /\ UNCHANGED <<sessionVars, syncVars, eventVars>>
SaveMessages ==
  /\ \E k \in StoreKeys : \E b \in Batches({k[2]}) : saveMessages(k[1], b)
  /\ UNCHANGED <<sessionVars, syncVars, eventVars>>
MarkMessageAsDeleted ==
  /\ \E k \in StoreKeys, by \in DeletedByTags : markMessageAsDeleted(k, by)
  /\ UNCHANGED <<sessionVars, syncVars, eventVars>>
UpdateMessageEditionFind ==
  /\ \E k \in StoreKeys, nb \in Bodies, pb \in Bodies :
       updateMessageEdition_find(k, nb, pb)
  /\ UNCHANGED <<sessionVars, syncVars, eventVars>>
UpdateMessageEditionWrite ==
  /\ \E call \in BagToSet(calls) : updateMessageEdition_write(call)
  /\ UNCHANGED <<sessionVars, syncVars, eventVars>>

NextStore ==
  \/ SaveMessageFind
  \/ SaveMessageWrite
  \/ SaveMessages
  \/ MarkMessageAsDeleted
  \/ UpdateMessageEditionFind
  \/ UpdateMessageEditionWrite

SpecStore == Init /\ [][NextStore]_vars

\* ------------------------------------------------------------------------
\* Specification of the session lifecycle
\* ------------------------------------------------------------------------
\* the session ids the lifecycle specification creates sessions for
LifeSessions == {"s1"}

CreateSessionGet ==
  /\ \E s \in LifeSessions, r \in BOOLEAN : createSession_get(s, r)
  /\ UNCHANGED <<storeVars, syncVars, eventVars>>
CreateSessionFind ==
  /\ \E s \in LifeSessions : createSession_find(s)
  /\ UNCHANGED <<storeVars, syncVars, eventVars>>
CreateSessionDestroy ==
  /\ \E s \in LifeSessions, d \in BOOLEAN : createSession_destroy(s, d)
  /\ UNCHANGED <<storeVars, syncVars, eventVars>>
CreateSessionStore ==
  /\ \E s \in LifeSessions : createSession_store(s)
  /\ UNCHANGED <<storeVars, syncVars, eventVars>>
CreateSessionSet ==
  /\ \E s \in LifeSessions : createSession_set(s)
  /\ UNCHANGED <<storeVars, syncVars, eventVars>>
CreateSessionCatch ==
  /\ \E s \in LifeSessions, lock \in BOOLEAN : createSession_catch(s, lock)
  /\ UNCHANGED <<storeVars, syncVars, eventVars>>
CreateSessionRetry ==
  /\ \E s \in LifeSessions : createSession_retry(s)
  /\ UNCHANGED <<storeVars, syncVars, eventVars>>
DestroySession ==
  /\ \E s \in LifeSessions, destroyed \in BOOLEAN, deleted \in BOOLEAN :
       destroySession(s, destroyed, deleted)
  /\ UNCHANGED <<storeVars, syncVars, eventVars>>
OnQr ==
  /\ \E c \in Clients : onQr(c, TRUE)
  /\ UNCHANGED <<storeVars, syncVars, scenarioVars>>
OnAuthenticated ==
  /\ \E c \in Clients : onAuthenticated(c)
  /\ UNCHANGED <<storeVars, syncVars, scenarioVars>>
OnAuthFailure ==
  /\ \E c \in Clients : onAuthFailure(c, TRUE)
  /\ UNCHANGED <<storeVars, syncVars, scenarioVars>>
OnReady ==
  /\ \E c \in Clients : onReady(c, TRUE)
  /\ UNCHANGED <<storeVars, syncVars, scenarioVars>>
OnDisconnected ==
  /\ \E c \in Clients : onDisconnected(c)
  /\ UNCHANGED <<storeVars, syncVars, scenarioVars>>
HandleSessionClosed ==
  /\ \E s \in LifeSessions : handleSessionClosed(s)
  /\ UNCHANGED <<storeVars, syncVars, eventVars>>

NextSession ==
  \/ CreateSessionGet
  \/ CreateSessionFind
  \/ CreateSessionDestroy
  \/ CreateSessionStore
  \/ CreateSessionSet
  \/ CreateSessionCatch
  \/ CreateSessionRetry
  \/ DestroySession
  \/ OnQr
  \/ OnAuthenticated
  \/ OnAuthFailure
  \/ OnReady
  \/ OnDisconnected
  \/ HandleSessionClosed

SpecSession == Init /\ [][NextSession]_vars

\* ------------------------------------------------------------------------
\* Specification of the synchronization pass: a session is created once,
\* becomes ready (its ready handler calls the pass unless the handle is
\* restoring), may disconnect, and a pass may be requested at any time.  The
\* pass reads the registry when it starts and writes only chats and messages,
\* so the other lifecycle operations are left to SpecSession.
\* ------------------------------------------------------------------------
SyncSessions == {"s1"}

\* what fetchMessages answers in this specification: the non-empty sets of
\* message ids, one body
SyncBatches ==
  {b \in Batches(MessageIds) : \A m \in DOMAIN b : b[m] = "a"}

SyncCreateSessionGet ==
  /\ \A c \in Clients : clients[c].state = "unborn"
  /\ \E s \in SyncSessions, r \in BOOLEAN : createSession_get(s, r)
  /\ UNCHANGED <<storeVars, syncVars, eventVars>>
SyncCreateSessionFind ==
  /\ \E s \in SyncSessions : createSession_find(s)
  /\ UNCHANGED <<storeVars, syncVars, eventVars>>
SyncCreateSessionStore ==
  /\ \E s \in SyncSessions : createSession_store(s)
  /\ UNCHANGED <<storeVars, syncVars, eventVars>>
SyncCreateSessionSet ==
  /\ \E s \in SyncSessions : createSession_set(s)
  /\ UNCHANGED <<storeVars, syncVars, eventVars>>
\* the ready handler: a handle that is not restoring calls the pass
SyncOnReady ==
  /\ \E c \in Clients :
       /\ onReady(c, TRUE)
       /\ LET s == clients[c].owner IN
          IF Handle(s).isRestoring
            THEN UNCHANGED syncVars
            ELSE syncChatsWithProgress_call(s, "ready")
  /\ UNCHANGED <<storeVars, scenarioVars>>
SyncOnDisconnected ==
  /\ \E c \in Clients : onDisconnected(c)
  /\ UNCHANGED <<storeVars, syncVars, scenarioVars>>
SyncRequest ==
  /\ \E s \in SyncSessions : syncChatsWithProgress_call(s, "request")
  /\ UNCHANGED <<storeVars, sessionVars, alerts, scenarioVars>>
SyncCheck ==
  /\ \E s \in SyncSessions : syncChatsWithProgress_check(s)
  /\ UNCHANGED <<storeVars, sessionVars, eventVars>>
SyncGetChats ==
  /\ \E s \in SyncSessions, ok \in BOOLEAN, n \in 0..MaxChats :
       syncChatsWithProgress_getChats(s, ok, n)
  /\ UNCHANGED <<storeVars, sessionVars, eventVars>>
SyncSaveChats ==
  /\ \E s \in SyncSessions, ok \in BOOLEAN, e2e \in BOOLEAN :
       syncChatsWithProgress_saveChats(s, ok, e2e)
  /\ UNCHANGED <<storeVars, sessionVars, eventVars>>
SyncFetchMessages ==
  /\ \E s \in SyncSessions, ok \in BOOLEAN :
       \E batch \in SyncBatches \cup {NoBatch} :
         syncChatsWithProgress_fetchMessages(s, ok, batch)
  /\ UNCHANGED <<storeVars, sessionVars, eventVars>>
SyncSaveMessages ==
  /\ \E s \in SyncSessions, ok \in BOOLEAN :
       syncChatsWithProgress_saveMessages(s, ok)
  /\ UNCHANGED <<calls, saveOutcome, sessionVars, eventVars>>
SyncEnd ==
  /\ \E s \in SyncSessions : syncChatsWithProgress_end(s)
  /\ UNCHANGED <<storeVars, sessionVars, alerts, scenarioVars>>

NextSync ==
  \/ SyncCreateSessionGet
  \/ SyncCreateSessionFind
  \/ SyncCreateSessionStore
  \/ SyncCreateSessionSet
  \/ SyncOnReady
  \/ SyncOnDisconnected
  \/ SyncRequest
  \/ SyncCheck
  \/ SyncGetChats
  \/ SyncSaveChats
  \/ SyncFetchMessages
  \/ SyncSaveMessages
  \/ SyncEnd

SpecSync == Init /\ [][NextSync]_vars

\* ------------------------------------------------------------------------
\* Specification of the message events: a session is created once and its
\* client delivers message events, each handled in one step
\* ------------------------------------------------------------------------
EventSessions == {"s1"}
EventMessages == {"m1"}
EventChats == {1}

EvCreateSessionGet ==
  /\ \A c \in Clients : clients[c].state = "unborn"
  /\ \E s \in EventSessions, r \in BOOLEAN : createSession_get(s, r)
  /\ UNCHANGED <<storeVars, syncVars, eventVars>>
EvCreateSessionFind ==
  /\ \E s \in EventSessions : createSession_find(s)
  /\ UNCHANGED <<storeVars, syncVars, eventVars>>
EvCreateSessionStore ==
  /\ \E s \in EventSessions : createSession_store(s)
  /\ UNCHANGED <<storeVars, syncVars, eventVars>>
EvCreateSessionSet ==
  /\ \E s \in EventSessions : createSession_set(s)
  /\ UNCHANGED <<storeVars, syncVars, eventVars>>
EvOnMessageCreate ==
  /\ \E c \in Clients, m \in EventMessages, chat \in EventChats,
        body \in Bodies, e2e \in BOOLEAN :
       onMessageCreate(c, m, chat, body, e2e)
  /\ UNCHANGED <<sessionVars, pass, progress, rapid, chatCalls>>
EvOnMessageRevokeMe ==
  /\ \E c \in Clients, m \in EventMessages, chat \in EventChats :
       onMessageRevokeMe(c, m, chat)
  /\ UNCHANGED <<sessionVars, syncVars, rapid, chatCalls>>
EvOnMessageRevokeEveryone ==
  /\ \E c \in Clients, m \in EventMessages, chat \in EventChats,
        body \in Bodies, hasRevokedMsg \in BOOLEAN :
       onMessageRevokeEveryone(c, m, chat, body, hasRevokedMsg)
  /\ UNCHANGED <<sessionVars, syncVars, rapid, chatCalls>>

EvOnMessageEdit ==
  /\ \E c \in Clients, m \in EventMessages, chat \in EventChats,
        newBody \in Bodies, prevBody \in Bodies :
       onMessageEdit(c, m, chat, newBody, prevBody)
  /\ UNCHANGED <<sessionVars, syncVars, rapid, chatCalls>>
EvOnChatRemoved ==
  /\ \E c \in Clients, chat \in EventChats, d \in DeletionDates :
       onChatRemoved(c, chat, d)
  /\ UNCHANGED <<storeVars, sessionVars, pass, progress, rapid, chatCalls>>
NextEvents ==
  \/ EvCreateSessionGet
  \/ EvCreateSessionFind
  \/ EvCreateSessionStore
  \/ EvCreateSessionSet
  \/ EvOnMessageCreate
  \/ EvOnMessageRevokeMe
  \/ EvOnMessageRevokeEveryone
  \/ EvOnMessageEdit
  \/ EvOnChatRemoved

SpecEvents == Init /\ [][NextEvents]_vars

\* ------------------------------------------------------------------------
\* Specification of the handlers that call the gateway outside any try:
\* a session is created once, and its client's qr, authenticated,
\* auth_failure, ready and disconnected events are handled, the gateway call
\* of a handler returning or throwing
\* ------------------------------------------------------------------------
EmitSessions == {"s1"}

EmCreateSessionGet ==
  /\ \A c \in Clients : clients[c].state = "unborn"
  /\ \E s \in EmitSessions, r \in BOOLEAN : createSession_get(s, r)
  /\ UNCHANGED <<storeVars, syncVars, eventVars>>
EmCreateSessionFind ==
  /\ \E s \in EmitSessions : createSession_find(s)
  /\ UNCHANGED <<storeVars, syncVars, eventVars>>
EmCreateSessionStore ==
  /\ \E s \in EmitSessions : createSession_store(s)
  /\ UNCHANGED <<storeVars, syncVars, eventVars>>
EmCreateSessionSet ==
  /\ \E s \in EmitSessions : createSession_set(s)
  /\ UNCHANGED <<storeVars, syncVars, eventVars>>
EmOnQr ==
  /\ \E c \in Clients, sent \in BOOLEAN : onQr(c, sent)
  /\ UNCHANGED <<storeVars, syncVars, scenarioVars>>
EmOnAuthenticated ==
  /\ \E c \in Clients : onAuthenticated(c)
  /\ UNCHANGED <<storeVars, syncVars, scenarioVars>>
EmOnAuthFailure ==
  /\ \E c \in Clients, sent \in BOOLEAN : onAuthFailure(c, sent)
  /\ UNCHANGED <<storeVars, syncVars, scenarioVars>>
EmOnReady ==
  /\ \E c \in Clients, sent \in BOOLEAN : onReady(c, sent)
  /\ UNCHANGED <<storeVars, syncVars, scenarioVars>>
EmOnDisconnected ==
  /\ \E c \in Clients : onDisconnected(c)
  /\ UNCHANGED <<storeVars, syncVars, scenarioVars>>

NextEmit ==
  \/ EmCreateSessionGet
  \/ EmCreateSessionFind
  \/ EmCreateSessionStore
  \/ EmCreateSessionSet
  \/ EmOnQr
  \/ EmOnAuthenticated
  \/ EmOnAuthFailure
  \/ EmOnReady
  \/ EmOnDisconnected

SpecEmit == Init /\ [][NextEmit]_vars

\* ------------------------------------------------------------------------
\* Specification of two sessions side by side: each is created once, its
\* client becomes ready and disconnects, it is synchronized over one chat
\* and destroyed, in any interleaving with the other. msgEvent holds the session the latest
\* step was for.
\* ------------------------------------------------------------------------
IsoSessions == SessionIds
IsoBatch == [m \in {"m1"} |-> "a"]

\* the latest step was a step for session s
Acting(s) == [NoEvent EXCEPT !.type = "step", !.sessionId = s]

IsoCreateSessionGet ==
  /\ \E s \in IsoSessions :
       /\ \A c \in Clients : clients[c].owner # s
       /\ createSession_get(s, FALSE)
       /\ msgEvent' = Acting(s)
  /\ UNCHANGED <<storeVars, syncVars, alerts, emitted, rapid, chatCalls>>
IsoCreateSessionFind ==
  /\ \E s \in IsoSessions :
       /\ createSession_find(s)
       /\ msgEvent' = Acting(s)
  /\ UNCHANGED <<storeVars, syncVars, alerts, emitted, rapid, chatCalls>>
IsoCreateSessionStore ==
  /\ \E s \in IsoSessions :
       /\ createSession_store(s)
       /\ msgEvent' = Acting(s)
  /\ UNCHANGED <<storeVars, syncVars, alerts, emitted, rapid, chatCalls>>
IsoCreateSessionSet ==
  /\ \E s \in IsoSessions :
       /\ createSession_set(s)
       /\ msgEvent' = Acting(s)
  /\ UNCHANGED <<storeVars, syncVars, alerts, emitted, rapid, chatCalls>>
IsoDestroySession ==
  /\ \E s \in IsoSessions :
       /\ destroySession(s, TRUE, TRUE)
       /\ msgEvent' = Acting(s)
  /\ UNCHANGED <<storeVars, syncVars, alerts, emitted, rapid, chatCalls>>
IsoOnReady ==
  /\ \E c \in Clients :
       /\ onReady(c, TRUE)
       /\ syncChatsWithProgress_call(clients[c].owner, "ready")
       /\ msgEvent' = Acting(clients[c].owner)
  /\ UNCHANGED <<storeVars, rapid, chatCalls>>
IsoOnDisconnected ==
  /\ \E c \in Clients :
       /\ onDisconnected(c)
       /\ msgEvent' = Acting(clients[c].owner)
  /\ UNCHANGED <<storeVars, syncVars, rapid, chatCalls>>
IsoSyncCheck ==
  /\ \E s \in IsoSessions :
       /\ syncChatsWithProgress_check(s)
       /\ msgEvent' = Acting(s)
  /\ UNCHANGED <<storeVars, sessionVars, alerts, emitted, rapid, chatCalls>>
IsoSyncGetChats ==
  /\ \E s \in IsoSessions :
       /\ syncChatsWithProgress_getChats(s, TRUE, 1)
       /\ msgEvent' = Acting(s)
  /\ UNCHANGED <<storeVars, sessionVars, alerts, emitted, rapid, chatCalls>>
IsoSyncSaveChats ==
  /\ \E s \in IsoSessions :
       /\ syncChatsWithProgress_saveChats(s, TRUE, FALSE)
       /\ msgEvent' = Acting(s)
  /\ UNCHANGED <<storeVars, sessionVars, alerts, emitted, rapid, chatCalls>>
IsoSyncFetchMessages ==
  /\ \E s \in IsoSessions :
       /\ syncChatsWithProgress_fetchMessages(s, TRUE, IsoBatch)
       /\ msgEvent' = Acting(s)
  /\ UNCHANGED <<storeVars, sessionVars, alerts, emitted, rapid, chatCalls>>
IsoSyncSaveMessages ==
  /\ \E s \in IsoSessions :
       /\ syncChatsWithProgress_saveMessages(s, TRUE)
       /\ msgEvent' = Acting(s)
  /\ UNCHANGED <<calls, saveOutcome, sessionVars, alerts, emitted, rapid,
                 chatCalls>>
IsoSyncEnd ==
  /\ \E s \in IsoSessions :
       /\ syncChatsWithProgress_end(s)
       /\ msgEvent' = Acting(s)
  /\ UNCHANGED <<storeVars, sessionVars, alerts, rapid, chatCalls>>

NextIso ==
  \/ IsoCreateSessionGet
  \/ IsoCreateSessionFind
  \/ IsoCreateSessionStore
  \/ IsoCreateSessionSet
  \/ IsoDestroySession
  \/ IsoOnReady
  \/ IsoOnDisconnected
  \/ IsoSyncCheck
  \/ IsoSyncGetChats
  \/ IsoSyncSaveChats
  \/ IsoSyncFetchMessages
  \/ IsoSyncSaveMessages
  \/ IsoSyncEnd

SpecIso == Init /\ [][NextIso]_vars

\* ------------------------------------------------------------------------
\* Specification of syncRecentMessages: one session is created, becomes
\* ready and disconnects, and syncRecentMessages is requested for one chat
\* or for all
\* ------------------------------------------------------------------------
RecentSessions == {"s1"}

RecCreateSessionGet ==
  /\ \A c \in Clients : clients[c].state = "unborn"
  /\ \E s \in RecentSessions : createSession_get(s, FALSE)
  /\ UNCHANGED <<storeVars, syncVars, eventVars>>
RecCreateSessionFind ==
  /\ \E s \in RecentSessions : createSession_find(s)
  /\ UNCHANGED <<storeVars, syncVars, eventVars>>
RecCreateSessionStore ==
  /\ \E s \in RecentSessions : createSession_store(s)
  /\ UNCHANGED <<storeVars, syncVars, eventVars>>
RecCreateSessionSet ==
  /\ \E s \in RecentSessions : createSession_set(s)
  /\ UNCHANGED <<storeVars, syncVars, eventVars>>
RecOnReady ==
  /\ \E c \in Clients : onReady(c, TRUE)
  /\ UNCHANGED <<storeVars, syncVars, scenarioVars>>
RecOnDisconnected ==
  /\ \E c \in Clients : onDisconnected(c)
  /\ UNCHANGED <<storeVars, syncVars, scenarioVars>>
RecCall ==
  /\ \E s \in RecentSessions, chatId \in {0} \cup ChatIds :
       syncRecentMessages_call(s, chatId)
  /\ UNCHANGED <<calls, saveOutcome, sessionVars, eventVars>>
RecGetChats ==
  /\ \E s \in RecentSessions, ok \in BOOLEAN, n \in 0..MaxChats :
       syncRecentMessages_getChats(s, ok, n)
  /\ UNCHANGED <<calls, saveOutcome, sessionVars, eventVars>>
RecFetchMessages ==
  /\ \E s \in RecentSessions, ok \in BOOLEAN :
       \E batch \in SyncBatches \cup {NoBatch} :
         syncRecentMessages_fetchMessages(s, ok, batch)
  /\ UNCHANGED <<calls, saveOutcome, sessionVars, eventVars>>
RecSaveMessages ==
  /\ \E s \in RecentSessions, ok \in BOOLEAN :
       syncRecentMessages_saveMessages(s, ok)
  /\ UNCHANGED <<calls, saveOutcome, sessionVars, eventVars>>
RecEnd ==
  /\ \E s \in RecentSessions : syncRecentMessages_end(s)
  /\ UNCHANGED <<calls, saveOutcome, sessionVars, eventVars>>

NextRecent ==
  \/ RecCreateSessionGet
  \/ RecCreateSessionFind
  \/ RecCreateSessionStore
  \/ RecCreateSessionSet
  \/ RecOnReady
  \/ RecOnDisconnected
  \/ RecCall
  \/ RecGetChats
  \/ RecFetchMessages
  \/ RecSaveMessages
  \/ RecEnd

SpecRecent == Init /\ [][NextRecent]_vars

\* ------------------------------------------------------------------------
\* Specification of getChatMessages: one session is created and becomes
\* ready; getChatMessages is requested, and the session may disconnect or be
\* destroyed while the request awaits the client
\* ------------------------------------------------------------------------
ClosedSessions == {"s1"}

ClCreateSessionGet ==
  /\ \A c \in Clients : clients[c].state = "unborn"
  /\ \E s \in ClosedSessions : createSession_get(s, FALSE)
  /\ UNCHANGED <<storeVars, syncVars, eventVars>>
ClCreateSessionFind ==
  /\ \E s \in ClosedSessions : createSession_find(s)
  /\ UNCHANGED <<storeVars, syncVars, eventVars>>
ClCreateSessionStore ==
  /\ \E s \in ClosedSessions : createSession_store(s)
  /\ UNCHANGED <<storeVars, syncVars, eventVars>>
ClCreateSessionSet ==
  /\ \E s \in ClosedSessions : createSession_set(s)
  /\ UNCHANGED <<storeVars, syncVars, eventVars>>
ClOnReady ==
  /\ \E c \in Clients : onReady(c, TRUE)
  /\ UNCHANGED <<storeVars, syncVars, scenarioVars>>
ClOnDisconnected ==
  /\ \E c \in Clients : onDisconnected(c)
  /\ UNCHANGED <<storeVars, syncVars, scenarioVars>>
ClDestroySession ==
  /\ \E s \in ClosedSessions, destroyed \in BOOLEAN, deleted \in BOOLEAN :
       destroySession(s, destroyed, deleted)
  /\ UNCHANGED <<storeVars, syncVars, eventVars>>
ClGetChatMessages ==
  /\ \E s \in ClosedSessions : getChatMessages_call(s)
  /\ UNCHANGED <<calls, saveOutcome, chats, progress, alerts, scenarioVars>>
ClAnswer ==
  /\ \E s \in ClosedSessions, ok \in BOOLEAN, sessionClosed \in BOOLEAN,
        saved \in BOOLEAN, batch \in SyncBatches :
       getChatMessages_answer(s, ok, sessionClosed, saved, batch)
  /\ UNCHANGED <<calls, saveOutcome, chats, progress, alerts, scenarioVars>>
ClEnd ==
  /\ \E s \in ClosedSessions : getChatMessages_end(s)
  /\ UNCHANGED <<calls, saveOutcome, chats, progress, alerts, scenarioVars>>

NextClosed ==
  \/ ClCreateSessionGet
  \/ ClCreateSessionFind
  \/ ClCreateSessionStore
  \/ ClCreateSessionSet
  \/ ClOnReady
  \/ ClOnDisconnected
  \/ ClDestroySession
  \/ ClGetChatMessages
  \/ ClAnswer
  \/ ClEnd

SpecClosed == Init /\ [][NextClosed]_vars

\* ------------------------------------------------------------------------
\* Specification of the sync_chats stream of a session's room: one session
\* is created, its ready event starts a pass, and the client emits
\* loading_screen while the pass is under way
\* ------------------------------------------------------------------------
LoadingSessions == {"s1"}

LdCreateSessionGet ==
  /\ \A c \in Clients : clients[c].state = "unborn"
  /\ \E s \in LoadingSessions : createSession_get(s, FALSE)
  /\ UNCHANGED <<storeVars, syncVars, eventVars>>
LdCreateSessionFind ==
  /\ \E s \in LoadingSessions : createSession_find(s)
  /\ UNCHANGED <<storeVars, syncVars, eventVars>>
LdCreateSessionStore ==
  /\ \E s \in LoadingSessions : createSession_store(s)
  /\ UNCHANGED <<storeVars, syncVars, eventVars>>
LdCreateSessionSet ==
  /\ \E s \in LoadingSessions : createSession_set(s)
  /\ UNCHANGED <<storeVars, syncVars, eventVars>>
LdOnReady ==
  /\ \E c \in Clients :
       /\ onReady(c, TRUE)
       /\ syncChatsWithProgress_call(clients[c].owner, "ready")
  /\ UNCHANGED <<storeVars, scenarioVars>>
\* a loading_screen event after a checkpoint of a pass under way
LdOnLoadingScreen ==
  /\ \E c \in Clients :
       /\ Emitting(c)
       /\ LET s == clients[c].owner IN
          /\ pass[s].pc \in {"saveChats", "fetchMessages", "saveMessages"}
          /\ progress[s][Len(progress[s])].nChats > 0
       /\ onLoadingScreen(c)
  /\ UNCHANGED <<storeVars, sessionVars, eventVars>>
LdSyncCheck ==
  /\ \E s \in LoadingSessions : syncChatsWithProgress_check(s)
  /\ UNCHANGED <<storeVars, sessionVars, eventVars>>
LdSyncGetChats ==
  /\ \E s \in LoadingSessions, ok \in BOOLEAN, n \in 0..MaxChats :
       syncChatsWithProgress_getChats(s, ok, n)
  /\ UNCHANGED <<storeVars, sessionVars, eventVars>>
LdSyncSaveChats ==
  /\ \E s \in LoadingSessions, ok \in BOOLEAN :
       syncChatsWithProgress_saveChats(s, ok, FALSE)
  /\ UNCHANGED <<storeVars, sessionVars, eventVars>>
LdSyncFetchMessages ==
  /\ \E s \in LoadingSessions, ok \in BOOLEAN :
       \E batch \in {IsoBatch, NoBatch} :
         syncChatsWithProgress_fetchMessages(s, ok, batch)
  /\ UNCHANGED <<storeVars, sessionVars, eventVars>>
LdSyncSaveMessages ==
  /\ \E s \in LoadingSessions, ok \in BOOLEAN :
       syncChatsWithProgress_saveMessages(s, ok)
  /\ UNCHANGED <<calls, saveOutcome, sessionVars, eventVars>>
LdSyncEnd ==
  /\ \E s \in LoadingSessions : syncChatsWithProgress_end(s)
  /\ UNCHANGED <<storeVars, sessionVars, alerts, scenarioVars>>

NextLoading ==
  \/ LdCreateSessionGet
  \/ LdCreateSessionFind
  \/ LdCreateSessionStore
  \/ LdCreateSessionSet
  \/ LdOnReady
  \/ LdOnLoadingScreen
  \/ LdSyncCheck
  \/ LdSyncGetChats
  \/ LdSyncSaveChats
  \/ LdSyncFetchMessages
  \/ LdSyncSaveMessages
  \/ LdSyncEnd

SpecLoading == Init /\ [][NextLoading]_vars

\* ------------------------------------------------------------------------
\* Specification of destroySession against a synchronization pass: one
\* session is created, its ready event starts a pass and destroySession is
\* requested at any point of it
\* ------------------------------------------------------------------------
CancelSessions == {"s1"}

CanCreateSessionGet ==
  /\ \A c \in Clients : clients[c].state = "unborn"
  /\ \E s \in CancelSessions : createSession_get(s, FALSE)
  /\ UNCHANGED <<storeVars, syncVars, eventVars>>
CanCreateSessionFind ==
  /\ \E s \in CancelSessions : createSession_find(s)
  /\ UNCHANGED <<storeVars, syncVars, eventVars>>
CanCreateSessionStore ==
  /\ \E s \in CancelSessions : createSession_store(s)
  /\ UNCHANGED <<storeVars, syncVars, eventVars>>
CanCreateSessionSet ==
  /\ \E s \in CancelSessions : createSession_set(s)
  /\ UNCHANGED <<storeVars, syncVars, eventVars>>
CanOnReady ==
  /\ \E c \in Clients :
       /\ onReady(c, TRUE)
       /\ syncChatsWithProgress_call(clients[c].owner, "ready")
  /\ UNCHANGED <<storeVars, scenarioVars>>
CanDestroySession ==
  /\ \E s \in CancelSessions, destroyed \in BOOLEAN, deleted \in BOOLEAN :
       destroySession(s, destroyed, deleted)
  /\ UNCHANGED <<storeVars, syncVars, eventVars>>
CanSyncCheck ==
  /\ \E s \in CancelSessions : syncChatsWithProgress_check(s)
  /\ UNCHANGED <<storeVars, sessionVars, eventVars>>
CanSyncGetChats ==
  /\ \E s \in CancelSessions, ok \in BOOLEAN, n \in 0..MaxChats :
       syncChatsWithProgress_getChats(s, ok, n)
  /\ UNCHANGED <<storeVars, sessionVars, eventVars>>
CanSyncSaveChats ==
  /\ \E s \in CancelSessions, ok \in BOOLEAN :
       syncChatsWithProgress_saveChats(s, ok, FALSE)
  /\ UNCHANGED <<storeVars, sessionVars, eventVars>>
CanSyncFetchMessages ==
  /\ \E s \in CancelSessions, ok \in BOOLEAN :
       \E batch \in {IsoBatch, NoBatch} :
         syncChatsWithProgress_fetchMessages(s, ok, batch)
  /\ UNCHANGED <<storeVars, sessionVars, eventVars>>
CanSyncSaveMessages ==
  /\ \E s \in CancelSessions, ok \in BOOLEAN :
       syncChatsWithProgress_saveMessages(s, ok)
  /\ UNCHANGED <<calls, saveOutcome, sessionVars, eventVars>>
CanSyncEnd ==
  /\ \E s \in CancelSessions : syncChatsWithProgress_end(s)
  /\ UNCHANGED <<storeVars, sessionVars, alerts, scenarioVars>>

NextCancel ==
  \/ CanCreateSessionGet
  \/ CanCreateSessionFind
  \/ CanCreateSessionStore
  \/ CanCreateSessionSet
  \/ CanOnReady
  \/ CanDestroySession
  \/ CanSyncCheck
  \/ CanSyncGetChats
  \/ CanSyncSaveChats
  \/ CanSyncFetchMessages
  \/ CanSyncSaveMessages
  \/ CanSyncEnd

SpecCancel == Init /\ [][NextCancel]_vars

\* ------------------------------------------------------------------------
\* Specification of two saveMessage calls in a row: a message is stored
\* (and edited), then saveMessage is called twice for it with different
\* bodies, the second call issued after the first and before or after the
\* first one's write
\* ------------------------------------------------------------------------
RapidSaveMessages ==
  /\ rapid.stage = "none"
  /\ \E k \in StoreKeys : \E b \in Batches({k[2]}) : saveMessages(k[1], b)
  /\ UNCHANGED <<sessionVars, syncVars, eventVars>>
RapidEditionFind ==
  /\ rapid.stage = "none"
  /\ \E k \in StoreKeys, nb \in Bodies, pb \in Bodies :
       updateMessageEdition_find(k, nb, pb)
  /\ UNCHANGED <<sessionVars, syncVars, eventVars>>
RapidEditionWrite ==
  /\ rapid.stage = "none"
  /\ \E call \in BagToSet(calls) : updateMessageEdition_write(call)
  /\ UNCHANGED <<sessionVars, syncVars, eventVars>>
RapidFirst ==
  /\ rapid.stage = "none"
  /\ calls = EmptyBag
  /\ \E k \in StoreKeys, b \in Bodies :
       /\ messages[k].exists
       /\ ~messages[k].isDeleted
       /\ saveMessage_find(k, b)
       /\ rapid' = [stage |-> "first", key |-> k, first |-> b, second |-> "",
                    edition |-> messages[k].edition]
  /\ UNCHANGED <<sessionVars, syncVars, alerts, emitted, msgEvent,
                 chatCalls>>
RapidSecond ==
  /\ rapid.stage = "first"
  /\ \E b \in Bodies \ {rapid.first} :
       /\ saveMessage_find(rapid.key, b)
       /\ rapid' = [rapid EXCEPT !.stage = "second", !.second = b]
  /\ UNCHANGED <<sessionVars, syncVars, alerts, emitted, msgEvent,
                 chatCalls>>
RapidWrite ==
  /\ rapid.stage \in {"first", "second"}
  /\ \E call \in BagToSet(calls) : saveMessage_write(call)
  /\ rapid' = IF rapid.stage = "second" /\ calls' = EmptyBag
                THEN [rapid EXCEPT !.stage = "done"]
                ELSE rapid
  /\ UNCHANGED <<sessionVars, syncVars, alerts, emitted, msgEvent,
                 chatCalls>>

NextRapid ==
  \/ RapidSaveMessages
  \/ RapidEditionFind
  \/ RapidEditionWrite
  \/ RapidFirst
  \/ RapidSecond
  \/ RapidWrite

SpecRapid == Init /\ [][NextRapid]_vars

\* ------------------------------------------------------------------------
\* Specification of the chat store: saveChat and markChatAsDeleted calls on
\* two chats of one session, in any interleaving
\* ------------------------------------------------------------------------
ChatKeys == {"s1"} \X {1, 2}

ChatsSaveChat ==
  /\ \E k \in ChatKeys, e2e \in BOOLEAN : saveChat(k[1], k[2], e2e)
  /\ UNCHANGED <<storeVars, sessionVars, pass, progress, alerts, emitted,
                 msgEvent, rapid>>
ChatsMarkFind ==
  /\ \E k \in ChatKeys, d \in DeletionDates : markChatAsDeleted_find(k, d)
  /\ UNCHANGED <<storeVars, sessionVars, pass, progress, alerts, emitted,
                 msgEvent, rapid>>
ChatsMarkWrite ==
  /\ \E call \in BagToSet(chatCalls) : markChatAsDeleted_write(call)
  /\ UNCHANGED <<storeVars, sessionVars, pass, progress, alerts, emitted,
                 msgEvent, rapid>>

NextChats ==
  \/ ChatsSaveChat
  \/ ChatsMarkFind
  \/ ChatsMarkWrite

SpecChats == Init /\ [][NextChats]_vars

\* The same with what the service does by itself made fair: a step of a call
\* or of a pass that is under way is taken (its await resolves).  Requests
\* and client events are left to the environment; the one createSession
\* request is the first.
SpecUnattended ==
  /\ Init
  /\ [][NextSync]_vars
  /\ WF_vars(SyncCreateSessionFind)
  /\ WF_vars(SyncCreateSessionStore)
  /\ WF_vars(SyncCreateSessionSet)
  /\ WF_vars(SyncCheck)
  /\ WF_vars(SyncGetChats)
  /\ WF_vars(SyncSaveChats)
  /\ WF_vars(SyncFetchMessages)
  /\ WF_vars(SyncSaveMessages)
  /\ WF_vars(SyncEnd)

\* ------------------------------------------------------------------------
\* Properties of the persistence layer
\* ------------------------------------------------------------------------
Deleted(k) == messages[k].exists /\ messages[k].isDeleted

\* C1: a saveMessage call made on a key whose stored document has
\* isDeleted = true writes nothing: the stored body, edition list and
\* isDeleted (the whole document) are as before and no write is left pending.
C1_SaveOnDeletedIsNoOp ==
  [][\A k \in MsgKeys, b \in Bodies :
       (Deleted(k) /\ saveMessage_find(k, b))
         => (messages' = messages /\ calls' = calls)]_vars

\* a saveMessage call on a deleted document has returned, the document still
\* deleted and with content
C1_Witness ==
  /\ saveOutcome = "returned"
  /\ \E k \in StoreKeys : Deleted(k) /\ messages[k].body \in Bodies

\* C2: once a stored message is deleted, no persistence operation sets
\* isDeleted back to false or changes its body.
C2_DeletedNeverResurrected ==
  [][\A k \in MsgKeys :
       Deleted(k) => (messages'[k].isDeleted /\ messages'[k].body = messages[k].body)]_vars

\* C3: the edition list of a stored message in each state extends the list of
\* the previous state.
C3_EditionOnlyGrows ==
  [][\A k \in MsgKeys :
       messages[k].exists => IsPrefix(messages[k].edition, messages'[k].edition)]_vars

\* C4: each durable transition into qr_generated increments the stored
\* qrAttempts by exactly 1, and each transition into authenticated or ready
\* resets it to 0, on every status write of the controller.
C4_QrAttemptsFollowStatus ==
  [][\A s \in SessionIds :
       (docs[s].exists /\ docs'[s].exists /\ docs'[s].status # docs[s].status)
         => /\ docs'[s].status = "qr_generated"
                 => docs'[s].qrAttempts = docs[s].qrAttempts + 1
            /\ docs'[s].status \in {"authenticated", "ready"}
                 => docs'[s].qrAttempts = 0]_vars

\* C5: a session whose qrAttempts reached maxQrAttempts is closed, and a
\* closed session stays closed whatever events follow: its status leaves
\* closed only by the status write of a new createSession.
C5_ClosedIsSticky ==
  [][\A s \in SessionIds :
       /\ (docs'[s].exists /\ docs'[s].qrAttempts >= docs'[s].maxQrAttempts)
            => docs'[s].status = "closed"
       /\ (docs[s].exists /\ docs[s].status = "closed" /\ docs'[s].exists
             /\ docs'[s].status # "closed")
            => (cs[s].pc = "store" /\ cs'[s].pc = "init")]_vars

\* the chats of the invocation p whose chat upsert (saveChats) threw
upsertsFailed(p) == {c \in 1..p.nChats : p.failure[c] = "saveChats"}

\* the steps of the loop body that can throw
Steps == {"saveChats", "fetchMessages", "saveMessages"}

NonDecreasing(log) ==
  \A j, k \in 1..Len(log) : j <= k => log[j].currentChat <= log[k].currentChat

EndsAt(log, n) ==
  /\ Len(log) >= 1
  /\ log[Len(log)].currentChat = n
  /\ log[Len(log)].nChats = n

\* C6 as stated: a pass over N chats emits exactly 1 + 2N checkpoints, in
\* non-decreasing currentChat order, ending with currentChat = nChats = N,
\* whichever steps of its loop body failed.
C6_AlwaysTwoPerChat ==
  \A s \in SessionIds :
    pass[s].pc = "returned"
      => /\ Len(progress[s]) = 1 + 2 * pass[s].nChats
         /\ NonDecreasing(progress[s])
         /\ EndsAt(progress[s], pass[s].nChats)

\* C6 amended: a pass over N chats emits 1 + 2N checkpoints less one for each
\* chat whose chat upsert failed (so exactly 1 + 2N when no chat upsert
\* fails), in non-decreasing currentChat order, ending with
\* currentChat = nChats = N.
C6_TwoPerChatLessFailedUpserts ==
  \A s \in SessionIds :
    pass[s].pc = "returned"
      => /\ Len(progress[s]) =
              1 + 2 * pass[s].nChats - Cardinality(upsertsFailed(pass[s]))
         /\ NonDecreasing(progress[s])
         /\ EndsAt(progress[s], pass[s].nChats)

C6_Witness ==
  \E s \in SyncSessions :
    /\ pass[s].pc = "returned"
    /\ pass[s].nChats = 3
    /\ Len(progress[s]) = 6
    /\ Cardinality(upsertsFailed(pass[s])) = 1
    /\ \E c \in 1..3 : pass[s].failure[c] = "saveMessages"

\* C7: within one invocation the checkpoints go through the chats in order:
\* the first is for currentChat 0, each next one is for the same chat or the
\* one after it (so nothing for chat i follows a checkpoint for chat i + 1),
\* no checkpoint is for a chat past the one the loop is at, and a pass that
\* has returned has a checkpoint for every chat 1..N.
C7_LoopIsSequential ==
  \A s \in SessionIds :
    LET log == progress[s] IN
    /\ Len(log) >= 1 => log[1].currentChat = 0
    /\ \A j \in 1..Len(log) :
         /\ log[j].currentChat <= pass[s].i
         /\ j < Len(log) =>
              log[j + 1].currentChat - log[j].currentChat \in {0, 1}
    /\ pass[s].pc = "returned"
         => \A c \in 1..pass[s].nChats :
              \E j \in 1..Len(log) : log[j].currentChat = c

C7_Witness ==
  \E s \in SyncSessions :
    /\ pass[s].pc = "returned"
    /\ pass[s].nChats = 3
    /\ Len(progress[s]) = 7
    /\ progress[s][7].currentChat = 3

\* C8: a step that failed for chat i is caught: the last checkpoint for
\* chat i has messagesSynced 0, the loop has moved past chat i or returned,
\* a pass that has returned has processed all N chats, and a pass throws
\* only before it has emitted anything, i.e. not after the chat list came.
C8_FailuresAreContained ==
  \A s \in SessionIds :
    LET p == pass[s]
        log == progress[s]
    IN /\ \A c \in ChatIds :
            p.failure[c] \in Steps
              => /\ c <= p.nChats
                 /\ \E j \in 1..Len(log) :
                      /\ log[j].currentChat = c
                      /\ log[j].messagesSynced = 0
                      /\ \A k \in (j + 1)..Len(log) : log[k].currentChat > c
                 /\ p.pc \in {"saveChats", "fetchMessages", "saveMessages",
                              "returned"}
                 /\ p.pc = "returned" \/ p.i > c
       /\ p.pc = "returned" => p.i = p.nChats \/ p.nChats = 0
       /\ p.pc = "threw" => log = <<>> /\ p.nChats = 0

C8_Witness ==
  \E s \in SyncSessions :
    /\ pass[s].pc = "returned"
    /\ pass[s].nChats = 3
    /\ pass[s].failure[1] = "saveChats"
    /\ pass[s].failure[2] = "fetchMessages"
    /\ pass[s].failure[3] = "saveMessages"

\* C9: a call of syncChatsWithProgress that finds no handle, or a handle
\* that is not ready, throws: it has made no call on the automation client,
\* emitted no checkpoint and written no chat and no message.
C9_NotReadyFails ==
  [][\A s \in SessionIds :
       (pass[s].pc = "called" /\ pass'[s] # pass[s]
          /\ ~(Handle(s).exists /\ Handle(s).isReady))
         => /\ pass'[s].pc = "threw"
            /\ pass'[s].clientCalls = 0
            /\ pass'[s].client = NoClient
            /\ progress'[s] = <<>>
            /\ chats' = chats
            /\ messages' = messages]_vars

C9_Witness ==
  \E s \in SyncSessions :
    /\ pass[s].pc = "threw"
    /\ pass[s].clientCalls = 0
    /\ Handle(s).exists
    /\ ~Handle(s).isReady

\* C10: createSession for an id whose handle is ready and whose stored status
\* is authenticated or ready returns {success: false} and changes nothing:
\* registry, handles, clients and session documents stay as they were.
C10_CreateOnReadyIsRejected ==
  [][\A s \in SessionIds :
       (cs[s].pc = "find" /\ cs'[s] # cs[s]
          /\ cs[s].existing # NoClient
          /\ handles[cs[s].existing].exists
          /\ handles[cs[s].existing].isReady
          /\ AuthOrReady(docs[s]))
         => /\ cs'[s].pc = "idle"
            /\ cs'[s].result = "rejected"
            /\ sessions' = sessions
            /\ handles' = handles
            /\ clients' = clients
            /\ docs' = docs]_vars

C10_Witness ==
  \E s \in LifeSessions :
    /\ cs[s].pc = "idle"
    /\ cs[s].result = "rejected"
    /\ Handle(s).exists
    /\ Handle(s).isReady
    /\ AuthOrReady(docs[s])

\* a step of the createSession call of s
CallStep(s) == cs[s].pc # "idle" /\ cs'[s] # cs[s]

\* C11: createSession for an id whose stored status is authenticated or ready
\* and that has no handle is not rejected: it goes on to store status
\* initializing and construct a client, and when initialize resolves it
\* registers a handle for that client with isReady false.
C11_RestoreIsNotRejected ==
  [][\A s \in SessionIds :
       /\ (CallStep(s) /\ cs[s].pc = "find" /\ cs[s].existing = NoClient
             /\ AuthOrReady(docs[s]))
            => (cs'[s].pc = "store" /\ cs'[s].stored)
       /\ (CallStep(s) /\ cs[s].pc = "store" /\ cs[s].existing = NoClient
             /\ cs[s].stored)
            => /\ cs'[s].pc = "init"
               /\ docs'[s].exists /\ docs'[s].status = "initializing"
               /\ clients[cs'[s].client].state = "unborn"
               /\ clients'[cs'[s].client] =
                    [owner |-> s, state |-> "initializing"]
       /\ (CallStep(s) /\ cs[s].pc = "init" /\ cs[s].existing = NoClient
             /\ cs[s].stored
             /\ cs'[s].result = "created")
            => /\ sessions'[s] = cs[s].client
               /\ handles'[cs[s].client].exists
               /\ ~handles'[cs[s].client].isReady
               /\ handles'[cs[s].client].isRestoring = cs[s].isRestoring]_vars

C11_Witness ==
  \E s \in LifeSessions :
    /\ cs[s].pc = "idle"
    /\ cs[s].result = "created"
    /\ cs[s].existing = NoClient
    /\ cs[s].stored
    /\ sessions[s] # NoClient
    /\ Handle(s).exists
    /\ ~Handle(s).isReady

\* the handle the call of s got from the registry exists and is not ready
ExistingNotReady(s) ==
  /\ cs[s].existing # NoClient
  /\ handles[cs[s].existing].exists
  /\ ~handles[cs[s].existing].isReady

\* the recreation of a call that found a handle: destroy is best-effort (the
\* client is destroyed or left as it was, the call goes on either way), the
\* registry entry is removed, and a client that did not exist is constructed
RecreateSteps(s) ==
  /\ (CallStep(s) /\ cs[s].pc = "destroy")
       => /\ cs'[s].pc = "store"
          /\ cs'[s].result = "none"
          /\ sessions'[s] = NoClient
          /\ clients'[cs[s].existing].state
               \in {"destroyed", clients[cs[s].existing].state}
  /\ (CallStep(s) /\ cs[s].pc = "store" /\ cs[s].existing # NoClient)
       => /\ cs'[s].pc = "init"
          /\ cs'[s].client # cs[s].existing
          /\ clients[cs'[s].client].state = "unborn"
          /\ clients'[cs'[s].client] = [owner |-> s, state |-> "initializing"]

C13_FirstQrCountsOne ==
  [][\A s \in SessionIds :
       /\ (CallStep(s) /\ cs[s].pc = "store" /\ ~docs[s].exists)
            => /\ docs'[s].exists /\ docs'[s].status = "initializing"
               /\ clients[cs'[s].client].state = "unborn"
       /\ (docs[s].exists /\ docs[s].status = "initializing"
             /\ docs'[s].exists /\ docs'[s].status = "qr_generated")
            => docs'[s].qrAttempts = 1]_vars

\* what is left of the call of a createSession up to its return: the retries
\* it may still make, then the steps of the attempt
Rank(call) ==
  IF call.pc = "idle" THEN 0
  ELSE 6 * (1 - call.retryCount)
       + CASE call.pc = "find" -> 5
           [] call.pc = "destroy" -> 4
           [] call.pc = "store" -> 3
           [] call.pc = "init" -> 2
           [] call.pc = "retry" -> 1

\* C14: a SingletonLock failure of the first initialize removes the session
\* folder and the registry entry and retries once with retryCount 1; a second
\* one, or any other failure, removes the registry entry, stores status error
\* and throws; a call initializes a client at most twice and every step takes
\* it nearer to its return.
C14_RetryOnceThenFail ==
  [][\A s \in SessionIds :
       /\ (CallStep(s) /\ cs[s].pc = "init" /\ cs'[s].result # "created")
            => /\ sessions'[s] = NoClient
               /\ clients'[cs[s].client].state = "failed"
               /\ IF cs'[s].error = "lock" /\ cs[s].retryCount = 0
                    THEN /\ cs'[s].pc = "retry"
                         /\ cs'[s].cleaned
                         /\ docs' = docs
                    ELSE /\ cs'[s].pc = "idle"
                         /\ cs'[s].result = "threw"
                         /\ docs'[s].exists /\ docs'[s].status = "error"
       /\ (CallStep(s) /\ cs[s].pc = "retry")
            => /\ cs'[s].pc = "find"
               /\ cs'[s].retryCount = cs[s].retryCount + 1
       /\ cs'[s].retryCount <= 1
       /\ cs'[s].inits <= 2
       /\ CallStep(s) => Rank(cs'[s]) < Rank(cs[s])]_vars

C14_Witness ==
  \E s \in LifeSessions :
    /\ cs[s].pc = "idle"
    /\ cs[s].result = "threw"
    /\ cs[s].error = "lock"
    /\ cs[s].retryCount = 1
    /\ cs[s].inits = 2
    /\ cs[s].cleaned
    /\ sessions[s] = NoClient
    /\ docs[s].status = "error"

C16_AutoReconnect ==
  \A s \in SessionIds :
    (docs[s].exists /\ docs[s].status = "disconnected"
       /\ sessions[s] = NoClient)
      ~> (sessions[s] # NoClient)

\* C17: after the handler of a message_revoke_everyone event for message m
\* in chat c, with or without the revoked message as payload and whether or
\* not m was stored, the stored message is deleted by "everyone" and the
\* handler has sent exactly one message_deleted alert for (m, c).
C17_RevokeEveryoneDeletes ==
  [][(msgEvent' # msgEvent /\ msgEvent'.type = "message_revoke_everyone")
       => LET e == msgEvent'
              k == <<e.sessionId, e.messageId>>
          IN /\ messages'[k].exists
             /\ messages'[k].isDeleted
             /\ messages'[k].deletedBy = "everyone"
             /\ alerts' = <<Alert("message_deleted", e.sessionId,
                                  e.messageId, e.chatId)>>]_vars

\* C19: under any interleaving of saveMessage / saveMessages calls for the
\* same (sessionId, messageId), at most one message document is stored for
\* that key.
C19_OneDocumentPerKey ==
  \A k \in MsgKeys : ~messages[k].duplicate

\* C18: once two saveMessage calls for the same stored, non-deleted message,
\* issued in order with different bodies and free to overlap, have both
\* completed, the stored body is the second call's body and the edition list
\* is the one stored before the first call.
C18_SecondBodyWins ==
  rapid.stage = "done"
    => /\ messages[rapid.key].body = rapid.second
       /\ messages[rapid.key].edition = rapid.edition

\* C20: updateMessageEdition only appends: a call on a stored message
\* carries the stored edition list with the body stored just before the call
\* appended to it, and its write leaves the edition list one entry longer
\* than the stored one, the stored entries kept, and the body equal to the
\* call's newBody.
C20_EditionAppendOnly ==
  [][/\ \A call \in BagToSet(calls') :
          (/\ call.op = "edit"
           /\ CopiesIn(call, calls') > CopiesIn(call, calls)
           /\ messages[call.key].exists)
            => call.edition = Append(messages[call.key].edition,
                                     messages[call.key].body)
     /\ \A call \in BagToSet(calls) :
          (/\ call.op = "edit"
           /\ calls' = Resume(call)
           /\ messages[call.key].exists)
            => /\ Len(messages'[call.key].edition)
                    = Len(messages[call.key].edition) + 1
               /\ IsPrefix(messages[call.key].edition,
                           messages'[call.key].edition)
               /\ messages'[call.key].body = call.body]_vars

\* C21: markChatAsDeleted only appends to the chat's deletedAt list: the
\* write of each call on a stored chat leaves the list equal to the stored
\* one with the call's date appended (one entry longer, earlier entries
\* kept) and deleted = true.
C21_DeletedAtAppendOnly ==
  [][\A call \in BagToSet(chatCalls) :
       (/\ chatCalls' = chatCalls (-) SetToBag({call})
        /\ chats[call.key].exists)
         => /\ chats'[call.key].deleted
            /\ chats'[call.key].deletedAt
                 = Append(chats[call.key].deletedAt, call.deletionDate)]_vars

\* a chat marked deleted twice holds both dates, the earlier one first
C21_Witness ==
  \E k \in ChatKeys :
    /\ chats[k].exists
    /\ chats[k].deleted
    /\ chats[k].deletedAt = <<1, 2>>

\* C22: saveChat / saveChats leave the deletedAt list of a stored chat as it
\* is, and a chat they insert starts with an empty list.
C22_SaveChatKeepsDeletedAt ==
  [][\A k \in SessionIds \X ChatIds :
       chatCalls' = chatCalls
         => /\ chats[k].exists => chats'[k].deletedAt = chats[k].deletedAt
            /\ (~chats[k].exists /\ chats'[k].exists)
                 => chats'[k].deletedAt = <<>>]_vars

\* a chat removed twice and seen again: not deleted any more, both dates kept
C22_Witness ==
  \E k \in ChatKeys :
    /\ chats[k].exists
    /\ ~chats[k].deleted
    /\ Len(chats[k].deletedAt) = MaxDeletions

\* C23: destroySession(id) with a live handle shuts the client down, removes
\* the handle, deletes the session record and returns success = true; with
\* no live handle it returns success = false and changes nothing.
C23_DestroyRemovesOrNoOp ==
  [][\A s \in SessionIds, destroyed \in BOOLEAN, deleted \in BOOLEAN :
       (sessions' # sessions /\ destroySession(s, destroyed, deleted))
         => LET result ==
                  destroySessionResult(sessions, s, destroyed, deleted)
            IN IF sessions[s] # NoClient
                 THEN /\ clients'[sessions[s]].state = "destroyed"
                      /\ sessions'[s] = NoClient
                      /\ ~docs'[s].exists
                      /\ result = "success"
                 ELSE /\ result = "not_found"
                      /\ UNCHANGED sessionVars]_vars

\* C23, amended: with a live handle destroySession either throws or has shut
\* the client down, removed the handle, deleted the record and returns
\* success = true; when it throws the record is kept, and the handle is kept
\* unless the client was shut down; with no live handle it returns
\* success = false and changes nothing.
C23_DestroyRemovesOrThrowsOrNoOp ==
  /\ [][\A s \in SessionIds, destroyed \in BOOLEAN, deleted \in BOOLEAN :
          (sessions' # sessions /\ destroySession(s, destroyed, deleted))
            => LET result ==
                     destroySessionResult(sessions, s, destroyed, deleted)
               IN /\ sessions[s] # NoClient
                  /\ clients'[sessions[s]].state = "destroyed"
                  /\ sessions'[s] = NoClient
                  /\ \/ result = "success" /\ ~docs'[s].exists
                     \/ result = "threw" /\ docs' = docs]_vars
  /\ [](\A s \in SessionIds, destroyed \in BOOLEAN, deleted \in BOOLEAN :
          (sessions[s] = NoClient \/ ~destroyed)
            => /\ destroySessionResult(sessions, s, destroyed, deleted)
                    = IF sessions[s] = NoClient THEN "not_found" ELSE "threw"
               /\ ~ENABLED (/\ destroySession(s, destroyed, deleted)
                            /\ sessionVars' # sessionVars))

\* a session that had a record and a handle has been destroyed: only
\* destroySession removes a record
C23_Witness ==
  \E s \in SessionIds, c \in Clients :
    /\ clients[c] = [owner |-> s, state |-> "destroyed"]
    /\ sessions[s] = NoClient
    /\ ~docs[s].exists

\* the session is being restored: createSession(s, {isRestoring: true}) has
\* constructed its client, or has registered its handle
Restored(s) ==
  \/ cs[s].pc # "idle" /\ cs[s].isRestoring /\ cs[s].client # NoClient
  \/ Handle(s).exists /\ Handle(s).isRestoring

\* the ready handler of session s stores status ready in this step
ReadyStored(s) ==
  /\ docs'[s].exists /\ docs'[s].status = "ready"
  /\ ~(docs[s].exists /\ docs[s].status = "ready")

\* C24: when the ready event of a session that startup restoration created
\* (createSession with isRestoring) is handled, no synchronization pass is
\* started (no sync_chats checkpoint, no session_ready) and the ready
\* notification is emitted.
C24_RestoredReadySkipsSync ==
  [][\A s \in SessionIds :
       (Restored(s) /\ ReadyStored(s))
         => /\ emitted' = <<Notice("ready", s, {})>>
            /\ pass'[s] = pass[s]
            /\ progress'[s] = progress[s]]_vars

\* C25: the handler of a qr event does nothing when the session's handle is
\* marked ready (no status write, no QR forwarded), and otherwise stores
\* status qr_generated and forwards the QR; so no step moves the stored
\* status from ready to qr_generated while the handle is ready.
C25_StaleQrIsIgnored ==
  [][/\ \A c \in Clients :
          ((docs' # docs \/ emitted' # emitted) /\ onQr(c, TRUE))
            => LET s == clients[c].owner IN
               IF Handle(s).exists /\ Handle(s).isReady
                 THEN docs' = docs /\ emitted' = <<>>
                 ELSE /\ docs'[s].exists
                      /\ docs'[s].status = "qr_generated"
                      /\ emitted' = <<Notice("qr", s, {})>>
     /\ \A s \in SessionIds :
          (/\ Handle(s).exists /\ Handle(s).isReady
           /\ docs[s].exists /\ docs[s].status = "ready")
            => docs'[s].status # "qr_generated"]_vars

\* a QR has been stored and forwarded for a session whose handle is
\* registered and not ready
C25_Witness ==
  \E s \in SessionIds :
    /\ Handle(s).exists
    /\ ~Handle(s).isReady
    /\ docs[s].exists
    /\ docs[s].status = "qr_generated"
    /\ emitted = <<Notice("qr", s, {})>>

\* C26: every event handler swallows its own exceptions: whatever fails
\* inside it (here the gateway call that forwards the event), no exception
\* leaves the handler.
C26_HandlersSwallow ==
  \A i \in 1..Len(emitted) : emitted[i].type # "unhandledRejection"

SentSessionReady(s) ==
  \E i \in 1..Len(emitted') : emitted'[i].type = "session_ready"
                                /\ emitted'[i].sessionId = s

alertTypeOf(eventType) ==
  CASE eventType = "chat_removed" -> "chat_removed"
    [] eventType = "message_edit" -> "message_edited"
    [] eventType = "message_revoke_me" -> "message_deleted"
    [] eventType = "message_revoke_everyone" -> "message_deleted"

\* C28: the handler of each chat_removed, message_edit, message_revoke_me
\* and message_revoke_everyone event sends exactly one alert, of the type of
\* that event, carrying the chat id and message id of the event.
C28_OneAlertPerEvent ==
  [][(/\ msgEvent' # msgEvent
      /\ msgEvent'.type \in {"chat_removed", "message_edit",
                             "message_revoke_me", "message_revoke_everyone"})
       => LET e == msgEvent' IN
          alerts' = <<Alert(alertTypeOf(e.type), e.sessionId, e.messageId,
                            e.chatId)>>]_vars

\* what a step leaves alone of session b: its registry entry, its clients
\* and their handles, its session record, its chats and its messages
Untouched(b) ==
  /\ sessions'[b] = sessions[b]
  /\ docs'[b] = docs[b]
  /\ \A c \in Clients :
       (clients[c].owner = b \/ clients'[c].owner = b)
         => (clients'[c] = clients[c] /\ handles'[c] = handles[c])
  /\ \A chat \in ChatIds : chats'[<<b, chat>>] = chats[<<b, chat>>]
  /\ \A m \in MessageIds : messages'[<<b, m>>] = messages[<<b, m>>]

DestroyedInFlight(s) ==
  /\ pass[s].pc \in {"getChats", "saveChats", "fetchMessages", "saveMessages"}
  /\ pass[s].client # NoClient
  /\ clients[pass[s].client].state = "destroyed"

\* C30: once destroySession has shut down the client of a pass in flight,
\* no step of the pass makes it throw: each failing client call is absorbed
\* by the catch of the chat loop, and when the pass leaves the loop it
\* returns with the checkpoints up to currentChat = nChats emitted.
C30_DestroyedPassReturns ==
  [][\A s \in SessionIds :
       (DestroyedInFlight(s) /\ pass'[s].pc # pass[s].pc)
         => /\ pass'[s].pc # "threw"
            /\ pass'[s].pc = "returned"
                 => EndsAt(progress'[s], pass'[s].nChats)]_vars

\* C31: syncRecentMessages throws unless the registry holds a ready handle;
\* its targets are the one chat given or the chats the client returned;
\* every fetched batch is bulk-upserted; a failure in the loop never makes
\* the call throw; no checkpoint is emitted; and it returns only after the
\* last target, with chatsProcessed the number of targets.
C31_RecentSync ==
  [][\A s \in SessionIds :
       (pass'[s].caller = "recent" /\ pass'[s] # pass[s])
         => LET p == pass[s]
                q == pass'[s]
            IN
            /\ progress' = progress
            /\ p.pc = "idle"
                 => /\ (q.pc = "threw")
                         = ~(Handle(s).exists /\ Handle(s).isReady)
                    /\ (q.pc # "threw" /\ q.target # 0)
                         => (q.nChats = 1 /\ targetId(q) = q.target)
            /\ p.pc \in {"fetchMessages", "saveMessages"} => q.pc # "threw"
            /\ (p.pc = "saveMessages" /\ messages' # messages)
                 => messages' = bulkWrite(messages, s, p.batch)
            /\ (p.pc = "fetchMessages" /\ q.pc = "saveMessages")
                 => q.batch # NoBatch
            /\ q.pc = "returned"
                 => /\ q.i = q.nChats
                    /\ q.target # 0 => q.nChats = 1]_vars

\* a syncRecentMessages call over all chats has returned after a failure in
\* the loop and a stored batch, with more than one chat processed
C31_Witness ==
  \E s \in SessionIds :
    /\ pass[s].caller = "recent"
    /\ pass[s].pc = "returned"
    /\ pass[s].target = 0
    /\ pass[s].nChats >= 2
    /\ \E c \in ChatIds : pass[s].failure[c] # "none"
    /\ \E m \in MessageIds : messages[<<s, m>>].exists

SentReady(s) ==
  \E i \in 1..Len(emitted') : emitted'[i] = Notice("ready", s, {})

\* C32: the handler of every ready event has emitted the ready notification
\* by the time it ends: at once for a restored session, and when the
\* synchronisation pass it called is over for any other, whether the pass
\* returned or threw.
C32_ReadyAlwaysNotified ==
  [][\A s \in SessionIds :
       /\ (pass[s].caller = "ready" /\ pass[s].pc \in {"returned", "threw"}
             /\ pass'[s].pc = "idle")
            => SentReady(s)
       /\ (\E c \in Clients :
             /\ clients[c].owner = s
             /\ Handle(s).isRestoring
             /\ pass'[s] = pass[s]
             /\ docs' # docs
             /\ onReady(c, TRUE))
            => SentReady(s)]_vars

\* client c has been constructed for session s and not destroyed, and it is
\* neither the client of the registry's handle nor the one a createSession
\* call under way is initializing
Orphaned(s, c) ==
  /\ clients[c].owner = s
  /\ Emitting(c)
  /\ sessions[s] # c
  /\ cs[s].client # c

\* C33: every client constructed for a session and not destroyed is the one
\* the registry refers to (or the one being initialized by the createSession
\* call under way), so a session has at most one client that can deliver
\* events.
C33_OneLiveClient ==
  \A s \in SessionIds :
    /\ \A c \in Clients : ~Orphaned(s, c)
    /\ Cardinality({c \in Clients : clients[c].owner = s /\ Emitting(c)}) <= 1

\* C34: while the stored status of a session is ready (the ready event was
\* handled and no disconnected, destroy or session-closed step followed) and
\* no createSession call is under way, the registry holds a handle for the
\* session with isReady = TRUE.
C34_ReadyInRegistry ==
  \A s \in SessionIds :
    (cs[s].pc = "idle" /\ docs[s].exists /\ docs[s].status = "ready")
      => (Handle(s).exists /\ Handle(s).isReady)

\* C35: a session record that does not exist (destroySession has deleted
\* it) comes into existence only through the status write of a createSession
\* call, and a session without a handle gets one only when a createSession
\* call registers it: no other operation of the destroyed session brings
\* the record or the handle back.
C35_DestroyedStaysGone ==
  [][\A s \in SessionIds :
       /\ (~docs[s].exists /\ docs'[s].exists)
            => (cs[s].pc = "store" /\ cs'[s].pc = "init")
       /\ (sessions[s] = NoClient /\ sessions'[s] # NoClient)
            => (cs[s].pc = "init" /\ cs'[s].pc = "idle")]_vars

\* C40: when the client call of getChatMessages fails with a "Session
\* closed" error, the handle, if there is one, is marked not ready and stays
\* registered, status closed is stored, sessionClosed is emitted and the
\* call throws; after any other failure the call throws with the handles
\* and the session records as they were.
C40_SessionClosedHandling ==
  [][\A s \in SessionIds, saved \in BOOLEAN, batch \in SyncBatches :
       /\ getChatMessages_answer(s, FALSE, TRUE, saved, batch)
            => /\ sessions' = sessions
               /\ Handle(s).exists
                    => (handles'[sessions[s]].exists
                          /\ ~handles'[sessions[s]].isReady)
               /\ docs'[s].exists
               /\ docs'[s].status = "closed"
               /\ emitted' = <<Notice("sessionClosed", s, {})>>
               /\ pass'[s].pc = "threw"
       /\ getChatMessages_answer(s, FALSE, FALSE, saved, batch)
            => /\ sessions' = sessions
               /\ handles' = handles
               /\ docs' = docs
               /\ emitted' = <<>>
               /\ pass'[s].pc = "threw"]_vars

\* getChatMessages has thrown after a "Session closed" failure: the handle
\* is registered and not ready, and the stored status is closed
C40_Witness ==
  \E s \in SessionIds :
    /\ pass[s].caller = "messages"
    /\ pass[s].pc = "threw"
    /\ emitted = <<Notice("sessionClosed", s, {})>>
    /\ Handle(s).exists
    /\ ~Handle(s).isReady
    /\ docs[s].exists
    /\ docs[s].status = "closed"

\* C36: when a createSession call fails, a handle that was in the registry
\* when the call started and is ready is still in the registry after the
\* catch block: the error path removes only what the failing call created.
C36_FailureKeepsReadyHandle ==
  [][\A s \in SessionIds :
       (/\ cs[s].pc = "init"
        /\ cs'[s].pc # "init"
        /\ cs'[s].error # "none"
        /\ sessions[s] # NoClient
        /\ sessions[s] = cs[s].existing
        /\ Handle(s).isReady)
         => sessions'[s] = sessions[s]]_vars

\* the session is not live and ready as the createSession call of s sees
\* it: the stored status is one of those a session is left in without being
\* ready, or the handle the call read is not ready
NotLiveAndReady(s) ==
  \/ /\ docs[s].exists
     /\ docs[s].status \in {"disconnected", "closed", "auth_failure", "error",
                            "initializing", "qr_generated"}
  \/ /\ cs[s].existing # NoClient
     /\ ~handles[cs[s].existing].isReady

\* C37: a createSession call for a session that is not live and ready is
\* not rejected: after its checks it goes on to tear down the handle that
\* is not ready, if any, and to build a new client.
C37_AlwaysRecreatable ==
  [][\A s \in SessionIds :
       (cs[s].pc = "find" /\ cs'[s].pc # "find" /\ NotLiveAndReady(s))
         => /\ cs'[s].result # "rejected"
            /\ cs'[s].pc \in {"destroy", "store"}]_vars

\* C38: the write of a saveMessage call whose findOne ran before the message
\* was marked deleted (the call is still under way and the stored message is
\* deleted by now) leaves the message deleted, with the deletedBy of the
\* revoke and the body stored when the deletion was recorded.
C38_LateSaveKeepsDeletion ==
  [][\A call \in BagToSet(calls) :
       (/\ call.op = "save"
        /\ calls' = Resume(call)
        /\ Deleted(call.key))
         => /\ messages'[call.key].isDeleted
            /\ messages'[call.key].deletedBy = messages[call.key].deletedBy
            /\ messages'[call.key].body = messages[call.key].body]_vars

\* C39: in the sync_chats notifications the room of a session receives
\* while a pass is under way, currentChat never goes down, loading_screen
\* events during the pass included.
C39_StreamNeverGoesBack ==
  \A s \in SessionIds :
    pass[s].caller = "ready" => NonDecreasing(progress[s])

====
